---- MODULE Spec2Model ----
(***************************************************************************)
(* anvil: project detection (the detector directory) and configuration    *)
(* generation (the generator directory).  Files are named relative to     *)
(* projectPath; every detector receives the same projectPath, so the      *)
(* `${projectPath}/` prefix of each query is left implicit.               *)
(***************************************************************************)
EXTENDS Integers, Sequences, FiniteSets, TLC

(***************************************************************************)
(* Bounds of the explored inputs.                                         *)
(***************************************************************************)
\* entries (files, sub-directories, workflow entries) of an explored storage
MaxFiles == 2
\* entries of a storage on which the command is run twice
MaxRerunFiles == 1
\* entries of a storage one of whose queries fails
MaxFaultFiles == 1

(***************************************************************************)
(* JavaScript values.  null of an object-typed field is Null, null of an  *)
(* enum-typed field (packageManager, ciProvider) is the name NullName.    *)
(***************************************************************************)
Null == [null |-> TRUE]
NullName == "null"

Range(s) == {s[i] : i \in DOMAIN s}

\* Array.prototype.includes on a sequence
ArrIncludes(s, x) == \E i \in DOMAIN s : s[i] = x

(***************************************************************************)
(* String.prototype.includes(needle) and endsWith(suffix), over the text  *)
(* values that occur as file contents, scripts and directory entries.     *)
(* Each pair <<haystack, needle>> records a true substring fact.          *)
(***************************************************************************)
SubstringFacts ==
  { <<"vitest run", "vitest">>, <<"vitest run", "vite">>,
    <<"jest --coverage", "jest">>,
    <<"mocha test/", "mocha">>,
    <<"vitest && jest", "vitest">>, <<"vitest && jest", "vite">>,
    <<"vitest && jest", "jest">>,
    <<"node test.js", "test">>,
    <<"vite build", "vite">>,
    <<"webpack --mode production", "webpack">>,
    <<"esbuild src/index.ts --bundle", "esbuild">>,
    <<"rollup -c", "rollup">>,
    <<"tsc", "tsc">>,
    <<"tsc && vite build", "tsc">>, <<"tsc && vite build", "vite">>,
    <<"[tool.poetry]\nname = 'test'", "[tool.poetry]">>,
    <<"[tool.pytest.ini_options]\ntestpaths = ['tests']", "[tool.pytest">>,
    <<"[tool.ruff]\n[tool.mypy]", "[tool.ruff]">>,
    <<"[tool.ruff]\n[tool.mypy]", "[tool.mypy]">>,
    <<"[tool.black]\nline-length = 88", "[tool.black]">>,
    <<"[build-system]\nrequires = ['hatchling']", "hatchling">>,
    <<"[build-system]\nrequires = ['maturin']", "maturin">>,
    <<"[build-system]\nrequires = ['setuptools']", "setuptools">>,
    <<"[tool.hatch]\n[tool.maturin]\nrequires = ['setuptools']", "[tool.hatch]">>,
    <<"[tool.hatch]\n[tool.maturin]\nrequires = ['setuptools']", "[tool.maturin]">>,
    <<"[tool.hatch]\n[tool.maturin]\nrequires = ['setuptools']", "maturin">>,
    <<"[tool.hatch]\n[tool.maturin]\nrequires = ['setuptools']", "setuptools">>,
    <<"[tool.maturin]\nrequires = ['setuptools']", "[tool.maturin]">>,
    <<"[tool.maturin]\nrequires = ['setuptools']", "maturin">>,
    <<"[tool.maturin]\nrequires = ['setuptools']", "setuptools">>,
    <<"[tool:pytest]\ntestpaths = tests", "[tool:pytest]">>,
    <<"[flake8]\nmax-line-length = 100", "[flake8]">>,
    <<"[unittest]\nstart-dir = tests", "[unittest]">> }

includes(haystack, needle) ==
  haystack = needle \/ <<haystack, needle>> \in SubstringFacts

SuffixFacts ==
  { <<"ci.yml", ".yml">>, <<"release.yaml", ".yaml">> }

endsWith(s, suffix) == s = suffix \/ <<s, suffix>> \in SuffixFacts

(***************************************************************************)
(* JSON.  A JSON text is a sequence of tokens: punctuation [p |-> "{"],   *)
(* string literals [s |-> "scripts"], other literals [lit |-> "42"].      *)
(* A JSON value is                                                        *)
(*   [type |-> "object", entries |-> << [key |-> k, value |-> v], .. >>]  *)
(*   [type |-> "array",  items |-> << v, .. >>]                           *)
(*   [type |-> "string", str |-> s]                                       *)
(*   [type |-> "literal", lit |-> "42" | "true" | "false" | "null"]       *)
(* Objects keep their entries in insertion order, as JavaScript does.     *)
(***************************************************************************)
P(c) == [p |-> c]
S(str) == [s |-> str]
Lit(l) == [lit |-> l]

IsP(tok, c) == tok = [p |-> c]
IsS(tok) == DOMAIN tok = {"s"}
IsLit(tok) == DOMAIN tok = {"lit"}
\* white space between tokens, e.g. the final "\n" of a generated document
Ws(c) == [ws |-> c]
IsWs(tok) == DOMAIN tok = {"ws"}

JStr(str) == [type |-> "string", str |-> str]
JArr(items) == [type |-> "array", items |-> items]
JObj(entries) == [type |-> "object", entries |-> entries]
JLit(l) == [type |-> "literal", lit |-> l]
KV(k, v) == [key |-> k, value |-> v]

ParseFail == [ok |-> FALSE]

RECURSIVE ParseValue(_, _), ParseMembers(_, _, _), ParseElements(_, _, _)

\* parse one value starting at token i: [ok, value, next]
ParseValue(toks, i) ==
  IF i > Len(toks) THEN ParseFail
  ELSE LET t == toks[i] IN
    IF IsS(t) THEN [ok |-> TRUE, value |-> JStr(t.s), next |-> i + 1]
    ELSE IF IsLit(t) THEN [ok |-> TRUE, value |-> JLit(t.lit), next |-> i + 1]
    ELSE IF IsP(t, "{") THEN
      IF i + 1 <= Len(toks) /\ IsP(toks[i + 1], "}")
        THEN [ok |-> TRUE, value |-> JObj(<<>>), next |-> i + 2]
        ELSE ParseMembers(toks, i + 1, <<>>)
    ELSE IF IsP(t, "[") THEN
      IF i + 1 <= Len(toks) /\ IsP(toks[i + 1], "]")
        THEN [ok |-> TRUE, value |-> JArr(<<>>), next |-> i + 2]
        ELSE ParseElements(toks, i + 1, <<>>)
    ELSE ParseFail

\* members of an object after "{" or ",": string ":" value ("," members | "}")
ParseMembers(toks, i, acc) ==
  IF i + 1 > Len(toks) \/ ~IsS(toks[i]) \/ ~IsP(toks[i + 1], ":") THEN ParseFail
  ELSE LET v == ParseValue(toks, i + 2) IN
    IF ~v.ok \/ v.next > Len(toks) THEN ParseFail
    ELSE LET acc2 == Append(acc, KV(toks[i].s, v.value)) IN
      IF IsP(toks[v.next], "}")
        THEN [ok |-> TRUE, value |-> JObj(acc2), next |-> v.next + 1]
      ELSE IF IsP(toks[v.next], ",") THEN ParseMembers(toks, v.next + 1, acc2)
      ELSE ParseFail

\* elements of an array after "[" or ",": value ("," elements | "]")
ParseElements(toks, i, acc) ==
  LET v == ParseValue(toks, i) IN
    IF ~v.ok \/ v.next > Len(toks) THEN ParseFail
    ELSE LET acc2 == Append(acc, v.value) IN
      IF IsP(toks[v.next], "]")
        THEN [ok |-> TRUE, value |-> JArr(acc2), next |-> v.next + 1]
      ELSE IF IsP(toks[v.next], ",") THEN ParseElements(toks, v.next + 1, acc2)
      ELSE ParseFail

\* JSON.parse: [threw |-> TRUE] on a SyntaxError, else [threw |-> FALSE, value]
JSONparse(text) ==
  LET toks == SelectSeq(text, LAMBDA tok : ~IsWs(tok))
      r == ParseValue(toks, 1)
  IN IF r.ok /\ r.next = Len(toks) + 1
       THEN [threw |-> FALSE, value |-> r.value]
       ELSE [threw |-> TRUE]

RECURSIVE Stringify(_)
RECURSIVE StringifyEntries(_, _), StringifyItems(_, _)

StringifyEntries(entries, i) ==
  IF i > Len(entries) THEN <<>>
  ELSE (IF i > 1 THEN <<P(",")>> ELSE <<>>)
       \o <<S(entries[i].key), P(":")>> \o Stringify(entries[i].value)
       \o StringifyEntries(entries, i + 1)

StringifyItems(items, i) ==
  IF i > Len(items) THEN <<>>
  ELSE (IF i > 1 THEN <<P(",")>> ELSE <<>>)
       \o Stringify(items[i]) \o StringifyItems(items, i + 1)

\* JSON.stringify(value, null, 2), token by token
Stringify(v) ==
  IF v.type = "string" THEN <<S(v.str)>>
  ELSE IF v.type = "literal" THEN <<Lit(v.lit)>>
  ELSE IF v.type = "array" THEN <<P("[")>> \o StringifyItems(v.items, 1) \o <<P("]")>>
  ELSE <<P("{")>> \o StringifyEntries(v.entries, 1) \o <<P("}")>>

\* typeof v === "object" (true of objects, arrays and null)
TypeofObject(v) == v.type \in {"object", "array"} \/ v = JLit("null")
IsNullValue(v) == v = JLit("null")

\* key in v, for a non-null value of typeof "object"
HasKey(v, k) == v.type = "object" /\ \E i \in DOMAIN v.entries : v.entries[i].key = k

Undefined == [type |-> "undefined"]

\* v[k]: the value of property k, undefined when there is none
Get(v, k) ==
  IF HasKey(v, k)
    THEN LET i == CHOOSE j \in DOMAIN v.entries :
                    /\ v.entries[j].key = k
                    /\ \A m \in DOMAIN v.entries : v.entries[m].key = k => m <= j
         IN v.entries[i].value
    ELSE Undefined

\* Object.keys(v)
Keys(v) == [i \in DOMAIN v.entries |-> v.entries[i].key]

(***************************************************************************)
(* The inspected storage (interface FileSystem).                          *)
(*   present     files that exist in the project root                     *)
(*   packageJson text of package.json (a JSON text), when present         *)
(*   pyproject   text of pyproject.toml, when present                     *)
(*   setupCfg    text of setup.cfg, when present                          *)
(*   dirs        sub-directories of the project root, in listing order    *)
(*   workflows   entries of .github/workflows, in listing order           *)
(*   faulty      queries that reject instead of answering                 *)
(***************************************************************************)
vitestConfigs == <<"vitest.config.ts", "vitest.config.js", "vitest.config.mts", "vitest.config.mjs">>
jestConfigs == <<"jest.config.ts", "jest.config.js", "jest.config.mjs">>
mochaConfigs == <<".mocharc.yml", ".mocharc.yaml", ".mocharc.json", ".mocharc.js">>
viteConfigs == <<"vite.config.ts", "vite.config.js", "vite.config.mts", "vite.config.mjs">>
webpackConfigs == <<"webpack.config.ts", "webpack.config.js", "webpack.config.mjs">>
rollupConfigs == <<"rollup.config.ts", "rollup.config.js", "rollup.config.mjs">>
biomeConfigs == <<"biome.json", "biome.jsonc">>
eslintConfigs ==
  <<"eslint.config.js", "eslint.config.mjs", "eslint.config.ts", ".eslintrc.js",
    ".eslintrc.json", ".eslintrc.yml", ".eslintrc.yaml">>
prettierConfigs ==
  <<".prettierrc", ".prettierrc.json", ".prettierrc.yml", ".prettierrc.yaml",
    ".prettierrc.js", ".prettierrc.mjs", "prettier.config.js", "prettier.config.mjs">>
pythonSignals == <<"pyproject.toml", "setup.py", "setup.cfg", "requirements.txt">>
monorepoSignals == <<"pnpm-workspace.yaml", "nx.json", "turbo.json", "lerna.json", "rush.json">>
interestingDirs ==
  <<"src", "lib", "app", "pages", "components", "tests", "test", "__tests__", "spec",
    "docs", "scripts", "public", "static", "assets", "config", "utils", "helpers">>
nodeLockfiles == <<"bun.lockb", "pnpm-lock.yaml", "yarn.lock", "package-lock.json">>
pythonLockfiles == <<"uv.lock", "poetry.lock", "Pipfile.lock", "Pipfile">>

\* the file names of the explored storages: of each list of configuration
\* names the first two, and every other name a detector asks about
FirstTwo(names) == {names[1], names[2]}

Paths ==
  FirstTwo(vitestConfigs) \cup FirstTwo(jestConfigs) \cup FirstTwo(mochaConfigs)
  \cup FirstTwo(viteConfigs) \cup FirstTwo(webpackConfigs) \cup FirstTwo(rollupConfigs)
  \cup FirstTwo(biomeConfigs) \cup FirstTwo(eslintConfigs) \cup FirstTwo(prettierConfigs)
  \cup Range(pythonSignals) \cup Range(monorepoSignals)
  \cup Range(nodeLockfiles) \cup Range(pythonLockfiles)
  \cup {"package.json", "tsconfig.json", "pytest.ini", "conftest.py",
        "ruff.toml", ".flake8", "mypy.ini"}

\* fs.exists(`${projectPath}/${name}`)
exists(fs, name) == name \in fs.present

\* fs.readFile(`${projectPath}/${name}`): [null |-> TRUE] or the file's text
readFile(fs, name) ==
  IF name \notin fs.present THEN [null |-> TRUE, text |-> ""]
  ELSE [null |-> FALSE,
        text |-> CASE name = "package.json" -> fs.packageJson
                   [] name = "pyproject.toml" -> fs.pyproject
                   [] name = "setup.cfg" -> fs.setupCfg
                   [] OTHER -> ""]

\* the files of the root in the order the listing returns them after the directories
RECURSIVE SetToSeq(_)
SetToSeq(set) ==
  IF set = {} THEN <<>>
  ELSE LET x == CHOOSE y \in set : TRUE IN <<x>> \o SetToSeq(set \ {x})

\* fs.readDir(projectPath)
readDirRoot(fs) == fs.dirs \o SetToSeq(fs.present)

\* fs.readDir(`${projectPath}/.github/workflows`)
readDirWorkflows(fs) == fs.workflows

\* index of the first name of configs that exists, 0 when none does
\* (the loops `for (const config of configs) if (await fs.exists(..))`)
FirstExisting(fs, configs) ==
  IF \E i \in DOMAIN configs : exists(fs, configs[i])
    THEN CHOOSE i \in DOMAIN configs :
           /\ exists(fs, configs[i])
           /\ \A j \in 1..(i - 1) : ~exists(fs, configs[j])
    ELSE 0

DetectedCommand(command, source) == [command |-> command, source |-> source]
Result(name, command, source) ==
  [name |-> name, command |-> DetectedCommand(command, source)]

(***************************************************************************)
(* detector/language.ts                                                   *)
(***************************************************************************)
\* typeof v === "object" && v !== null && "typescript" in v
HasTypescriptKey(v) == TypeofObject(v) /\ ~IsNullValue(v) /\ HasKey(v, "typescript")

\* hasTypescriptDep looking at devDependencies only
hasTypescriptDevDep(packageJsonContent) ==
  LET parsed == JSONparse(packageJsonContent) IN
    IF parsed.threw THEN FALSE
    ELSE IF ~TypeofObject(parsed.value) \/ IsNullValue(parsed.value) THEN FALSE
    ELSE HasTypescriptKey(Get(parsed.value, "devDependencies"))

hasTypescriptDep(packageJsonContent) ==
  LET parsed == JSONparse(packageJsonContent) IN
    IF parsed.threw THEN FALSE
    ELSE IF ~TypeofObject(parsed.value) \/ IsNullValue(parsed.value) THEN FALSE
    ELSE LET deps == Get(parsed.value, "dependencies")
             devDeps == Get(parsed.value, "devDependencies")
         IN HasTypescriptKey(deps) \/ HasTypescriptKey(devDeps)

\* the Node.js / JavaScript / TypeScript part of detectLanguage
detectNodeLanguage(fs) ==
  IF exists(fs, "package.json") THEN
    IF exists(fs, "tsconfig.json") THEN <<"typescript">>
    ELSE LET packageJson == readFile(fs, "package.json") IN
      IF ~packageJson.null /\ hasTypescriptDep(packageJson.text)
        THEN <<"typescript">>
        ELSE <<"javascript">>
  ELSE <<>>

\* the Python part of detectLanguage
detectPythonLanguage(fs) ==
  IF FirstExisting(fs, pythonSignals) # 0 THEN <<"python">> ELSE <<>>

detectLanguage(fs) == detectNodeLanguage(fs) \o detectPythonLanguage(fs)

(***************************************************************************)
(* detector/package-manager.ts                                            *)
(***************************************************************************)
nodeLockfileManagers == <<"bun", "pnpm", "yarn", "npm">>
pythonLockfileManagers == <<"uv", "poetry", "pipenv", "pipenv">>

\* detectPackageManager asking for the Python signals before the Node lockfiles
detectPackageManagerPythonFirst(fs) ==
  LET n == FirstExisting(fs, nodeLockfiles)
      py == FirstExisting(fs, pythonLockfiles)
      pyproject == readFile(fs, "pyproject.toml")
  IN IF py # 0 THEN pythonLockfileManagers[py]
     ELSE IF ~pyproject.null /\ includes(pyproject.text, "[tool.poetry]") THEN "poetry"
     ELSE IF ~pyproject.null \/ exists(fs, "requirements.txt") THEN "pip"
     ELSE IF n # 0 THEN nodeLockfileManagers[n]
     ELSE IF exists(fs, "package.json") THEN "npm"
     ELSE NullName

detectPackageManager(fs) ==
  LET n == FirstExisting(fs, nodeLockfiles)
      py == FirstExisting(fs, pythonLockfiles)
      pyproject == readFile(fs, "pyproject.toml")
  IN IF n # 0 THEN nodeLockfileManagers[n]
     ELSE IF py # 0 THEN pythonLockfileManagers[py]
     ELSE IF ~pyproject.null /\ includes(pyproject.text, "[tool.poetry]") THEN "poetry"
     ELSE IF ~pyproject.null \/ exists(fs, "requirements.txt") THEN "pip"
     ELSE IF exists(fs, "package.json") THEN "npm"
     ELSE NullName

(***************************************************************************)
(* detector/test-framework.ts                                             *)
(***************************************************************************)
\* obj["scripts"][field] of a package.json text when it is a string, else Null
ScriptOf(packageJsonContent, field) ==
  LET parsed == JSONparse(packageJsonContent) IN
    IF parsed.threw THEN Null
    ELSE IF ~TypeofObject(parsed.value) \/ IsNullValue(parsed.value) THEN Null
    ELSE LET scripts == Get(parsed.value, "scripts") IN
      IF ~TypeofObject(scripts) \/ IsNullValue(scripts) THEN Null
      ELSE LET script == Get(scripts, field) IN
        IF script.type # "string" THEN Null ELSE script

\* detectFromPackageJsonScripts without the try block around JSON.parse
detectFromPackageJsonScriptsUnguarded(packageJsonContent) ==
  LET testScript == ScriptOf(packageJsonContent, "test") IN
    IF JSONparse(packageJsonContent).threw THEN [threw |-> TRUE]
    ELSE IF testScript = Null THEN Null
    ELSE IF includes(testScript.str, "vitest")
      THEN Result("vitest", "npm test", "package.json scripts.test")
    ELSE IF includes(testScript.str, "jest")
      THEN Result("jest", "npm test", "package.json scripts.test")
    ELSE IF includes(testScript.str, "mocha")
      THEN Result("mocha", "npm test", "package.json scripts.test")
    ELSE Null

detectFromPackageJsonScripts(packageJsonContent) ==
  LET testScript == ScriptOf(packageJsonContent, "test") IN
    IF testScript = Null THEN Null
    ELSE IF includes(testScript.str, "vitest")
      THEN Result("vitest", "npm test", "package.json scripts.test")
    ELSE IF includes(testScript.str, "jest")
      THEN Result("jest", "npm test", "package.json scripts.test")
    ELSE IF includes(testScript.str, "mocha")
      THEN Result("mocha", "npm test", "package.json scripts.test")
    ELSE Null

\* detectNodeTestFramework mining scripts.test before it asks for config files
detectNodeTestFrameworkScriptsFirst(fs) ==
  LET v == FirstExisting(fs, vitestConfigs)
      j == FirstExisting(fs, jestConfigs)
      m == FirstExisting(fs, mochaConfigs)
      packageJson == readFile(fs, "package.json")
      fromScripts == IF packageJson.null THEN Null
                     ELSE detectFromPackageJsonScripts(packageJson.text)
  IN IF fromScripts # Null THEN fromScripts
     ELSE IF v # 0 THEN Result("vitest", "npx vitest run", vitestConfigs[v])
     ELSE IF j # 0 THEN Result("jest", "npx jest", jestConfigs[j])
     ELSE IF m # 0 THEN Result("mocha", "npx mocha", mochaConfigs[m])
     ELSE Null

detectNodeTestFramework(fs) ==
  LET v == FirstExisting(fs, vitestConfigs)
      j == FirstExisting(fs, jestConfigs)
      m == FirstExisting(fs, mochaConfigs)
      packageJson == readFile(fs, "package.json")
  IN IF v # 0 THEN Result("vitest", "npx vitest run", vitestConfigs[v])
     ELSE IF j # 0 THEN Result("jest", "npx jest", jestConfigs[j])
     ELSE IF m # 0 THEN Result("mocha", "npx mocha", mochaConfigs[m])
     ELSE IF ~packageJson.null THEN detectFromPackageJsonScripts(packageJson.text)
     ELSE Null

detectPythonTestFramework(fs) ==
  LET pyprojectContent == readFile(fs, "pyproject.toml")
      setupCfg == readFile(fs, "setup.cfg")
  IN IF exists(fs, "pytest.ini") THEN Result("pytest", "pytest", "pytest.ini")
     ELSE IF exists(fs, "conftest.py") THEN Result("pytest", "pytest", "conftest.py")
     ELSE IF ~pyprojectContent.null /\ includes(pyprojectContent.text, "[tool.pytest")
       THEN Result("pytest", "pytest", "pyproject.toml [tool.pytest]")
     ELSE IF ~setupCfg.null /\ includes(setupCfg.text, "[tool:pytest]")
       THEN Result("pytest", "pytest", "setup.cfg [tool:pytest]")
     ELSE Null

\* detectTestFramework asking for the Python evidence first
detectTestFrameworkPythonFirst(fs) ==
  LET pythonResult == detectPythonTestFramework(fs) IN
    IF pythonResult # Null THEN pythonResult ELSE detectNodeTestFramework(fs)

detectTestFramework(fs) ==
  LET nodeResult == detectNodeTestFramework(fs) IN
    IF nodeResult # Null THEN nodeResult ELSE detectPythonTestFramework(fs)

(***************************************************************************)
(* detector/build-system.ts                                               *)
(***************************************************************************)
detectFromBuildScript(packageJsonContent) ==
  LET buildScript == ScriptOf(packageJsonContent, "build") IN
    IF buildScript = Null THEN Null
    ELSE IF includes(buildScript.str, "vite")
      THEN Result("vite", "npm run build", "package.json scripts.build")
    ELSE IF includes(buildScript.str, "webpack")
      THEN Result("webpack", "npm run build", "package.json scripts.build")
    ELSE IF includes(buildScript.str, "esbuild")
      THEN Result("esbuild", "npm run build", "package.json scripts.build")
    ELSE IF includes(buildScript.str, "rollup")
      THEN Result("rollup", "npm run build", "package.json scripts.build")
    ELSE IF includes(buildScript.str, "tsc")
      THEN Result("tsc", "npm run build", "package.json scripts.build")
    ELSE Null

\* detectNodeBuildSystem asking for tsconfig.json before it reads scripts.build
detectNodeBuildSystemTsconfigFirst(fs) ==
  LET v == FirstExisting(fs, viteConfigs)
      w == FirstExisting(fs, webpackConfigs)
      r == FirstExisting(fs, rollupConfigs)
      packageJson == readFile(fs, "package.json")
      fromScripts == IF packageJson.null THEN Null
                     ELSE detectFromBuildScript(packageJson.text)
  IN IF v # 0 THEN Result("vite", "npx vite build", viteConfigs[v])
     ELSE IF w # 0 THEN Result("webpack", "npx webpack", webpackConfigs[w])
     ELSE IF r # 0 THEN Result("rollup", "npx rollup -c", rollupConfigs[r])
     ELSE IF exists(fs, "tsconfig.json") THEN Result("tsc", "npx tsc", "tsconfig.json")
     ELSE IF fromScripts # Null THEN fromScripts
     ELSE Null

detectNodeBuildSystem(fs) ==
  LET v == FirstExisting(fs, viteConfigs)
      w == FirstExisting(fs, webpackConfigs)
      r == FirstExisting(fs, rollupConfigs)
      packageJson == readFile(fs, "package.json")
      fromScripts == IF packageJson.null THEN Null
                     ELSE detectFromBuildScript(packageJson.text)
  IN IF v # 0 THEN Result("vite", "npx vite build", viteConfigs[v])
     ELSE IF w # 0 THEN Result("webpack", "npx webpack", webpackConfigs[w])
     ELSE IF r # 0 THEN Result("rollup", "npx rollup -c", rollupConfigs[r])
     ELSE IF fromScripts # Null THEN fromScripts
     ELSE IF exists(fs, "tsconfig.json") THEN Result("tsc", "npx tsc", "tsconfig.json")
     ELSE Null

\* detectPythonBuildSystem naming setup.py as the source of every setuptools finding
detectPythonBuildSystemSetupPySource(fs) ==
  LET pyprojectContent == readFile(fs, "pyproject.toml") IN
    IF pyprojectContent.null THEN
      IF exists(fs, "setup.py")
        THEN Result("setuptools", "python -m build", "setup.py")
        ELSE Null
    ELSE IF includes(pyprojectContent.text, "[tool.hatch]")
            \/ includes(pyprojectContent.text, "hatchling")
      THEN Result("hatch", "hatch build", "pyproject.toml [tool.hatch]")
    ELSE IF includes(pyprojectContent.text, "[tool.maturin]")
            \/ includes(pyprojectContent.text, "maturin")
      THEN Result("maturin", "maturin build", "pyproject.toml [tool.maturin]")
    ELSE IF includes(pyprojectContent.text, "setuptools") \/ exists(fs, "setup.py")
      THEN Result("setuptools", "python -m build", "setup.py")
    ELSE Null

\* detectPythonBuildSystem testing for setuptools before hatch and maturin
detectPythonBuildSystemSetuptoolsFirst(fs) ==
  LET pyprojectContent == readFile(fs, "pyproject.toml") IN
    IF pyprojectContent.null THEN
      IF exists(fs, "setup.py")
        THEN Result("setuptools", "python -m build", "setup.py")
        ELSE Null
    ELSE IF includes(pyprojectContent.text, "setuptools") \/ exists(fs, "setup.py")
      THEN Result("setuptools", "python -m build", "pyproject.toml")
    ELSE IF includes(pyprojectContent.text, "[tool.hatch]")
            \/ includes(pyprojectContent.text, "hatchling")
      THEN Result("hatch", "hatch build", "pyproject.toml [tool.hatch]")
    ELSE IF includes(pyprojectContent.text, "[tool.maturin]")
            \/ includes(pyprojectContent.text, "maturin")
      THEN Result("maturin", "maturin build", "pyproject.toml [tool.maturin]")
    ELSE Null

detectPythonBuildSystem(fs) ==
  LET pyprojectContent == readFile(fs, "pyproject.toml") IN
    IF pyprojectContent.null THEN
      IF exists(fs, "setup.py")
        THEN Result("setuptools", "python -m build", "setup.py")
        ELSE Null
    ELSE IF includes(pyprojectContent.text, "[tool.hatch]")
            \/ includes(pyprojectContent.text, "hatchling")
      THEN Result("hatch", "hatch build", "pyproject.toml [tool.hatch]")
    ELSE IF includes(pyprojectContent.text, "[tool.maturin]")
            \/ includes(pyprojectContent.text, "maturin")
      THEN Result("maturin", "maturin build", "pyproject.toml [tool.maturin]")
    ELSE IF includes(pyprojectContent.text, "setuptools") \/ exists(fs, "setup.py")
      THEN Result("setuptools", "python -m build", "pyproject.toml")
    ELSE Null

detectBuildSystem(fs) ==
  LET nodeResult == detectNodeBuildSystem(fs) IN
    IF nodeResult # Null THEN nodeResult ELSE detectPythonBuildSystem(fs)

(***************************************************************************)
(* detector/ci-provider.ts                                                *)
(***************************************************************************)
\* detectCIProvider taking any entry of the workflow directory for a workflow
detectCIProviderAnyEntry(fs) ==
  IF Len(readDirWorkflows(fs)) > 0 THEN "github-actions" ELSE NullName

detectCIProvider(fs) ==
  LET entries == readDirWorkflows(fs)
      hasWorkflows == \E i \in DOMAIN entries :
                        endsWith(entries[i], ".yml") \/ endsWith(entries[i], ".yaml")
  IN IF hasWorkflows THEN "github-actions" ELSE NullName

(***************************************************************************)
(* detector/linter.ts                                                     *)
(***************************************************************************)
\* detectNodeLinters going on to the eslint and prettier configs after biome
detectNodeLintersNoShortCircuit(fs) ==
  LET b == FirstExisting(fs, biomeConfigs)
      e == FirstExisting(fs, eslintConfigs)
      p == FirstExisting(fs, prettierConfigs)
  IN (IF b # 0 THEN <<Result("biome", "npx biome check .", biomeConfigs[b])>> ELSE <<>>)
     \o (IF e # 0 THEN <<Result("eslint", "npx eslint .", eslintConfigs[e])>> ELSE <<>>)
     \o (IF p # 0 THEN <<Result("prettier", "npx prettier --check .", prettierConfigs[p])>>
         ELSE <<>>)

detectNodeLinters(fs) ==
  LET b == FirstExisting(fs, biomeConfigs)
      e == FirstExisting(fs, eslintConfigs)
      p == FirstExisting(fs, prettierConfigs)
  IN IF b # 0 THEN <<Result("biome", "npx biome check .", biomeConfigs[b])>>
     ELSE (IF e # 0 THEN <<Result("eslint", "npx eslint .", eslintConfigs[e])>> ELSE <<>>)
          \o (IF p # 0 THEN <<Result("prettier", "npx prettier --check .", prettierConfigs[p])>>
              ELSE <<>>)

\* value ?? "" of a readFile answer
OrEmpty(answer) == IF answer.null THEN "" ELSE answer.text

detectPythonLinters(fs) ==
  LET pyprojectContent == readFile(fs, "pyproject.toml")
      ruff == IF exists(fs, "ruff.toml")
                THEN <<Result("ruff", "ruff check .", "ruff.toml")>>
              ELSE IF ~pyprojectContent.null /\ includes(pyprojectContent.text, "[tool.ruff]")
                THEN <<Result("ruff", "ruff check .", "pyproject.toml [tool.ruff]")>>
              ELSE <<>>
      black == IF ~pyprojectContent.null /\ includes(pyprojectContent.text, "[tool.black]")
                 THEN <<Result("black", "black --check .", "pyproject.toml [tool.black]")>>
               ELSE <<>>
      flake8 == IF exists(fs, ".flake8")
                  THEN <<Result("flake8", "flake8 .", ".flake8")>>
                ELSE IF exists(fs, "setup.cfg")
                        /\ includes(OrEmpty(readFile(fs, "setup.cfg")), "[flake8]")
                  THEN <<Result("flake8", "flake8 .", "setup.cfg [flake8]")>>
                ELSE <<>>
      mypy == IF ~pyprojectContent.null /\ includes(pyprojectContent.text, "[tool.mypy]")
                THEN <<Result("mypy", "mypy .", "pyproject.toml [tool.mypy]")>>
              ELSE IF exists(fs, "mypy.ini")
                THEN <<Result("mypy", "mypy .", "mypy.ini")>>
              ELSE <<>>
  IN ruff \o black \o flake8 \o mypy

\* detectLinters pushing the Python results before the Node results
detectLintersPythonFirst(fs) == detectPythonLinters(fs) \o detectNodeLinters(fs)

detectLinters(fs) == detectNodeLinters(fs) \o detectPythonLinters(fs)

(***************************************************************************)
(* detector/index.ts                                                      *)
(***************************************************************************)
\* detectDirectories listing the recognised names in the order of interestingDirs
detectDirectoriesInFixedOrder(fs) ==
  SelectSeq(interestingDirs, LAMBDA name : ArrIncludes(readDirRoot(fs), name))

detectDirectories(fs) ==
  SelectSeq(readDirRoot(fs), LAMBDA entry : ArrIncludes(interestingDirs, entry))

\* detectMonorepo looking at the marker files only
detectMonorepoMarkersOnly(fs) == FirstExisting(fs, monorepoSignals) # 0

detectMonorepo(fs) ==
  LET packageJson == readFile(fs, "package.json")
      parsed == JSONparse(packageJson.text)
  IN IF FirstExisting(fs, monorepoSignals) # 0 THEN TRUE
     ELSE IF packageJson.null THEN FALSE
     ELSE IF parsed.threw THEN FALSE
     ELSE TypeofObject(parsed.value) /\ ~IsNullValue(parsed.value)
          /\ HasKey(parsed.value, "workspaces")

installCommands ==
  [npm |-> "npm install", yarn |-> "yarn install", pnpm |-> "pnpm install",
   bun |-> "bun install", pip |-> "pip install -r requirements.txt",
   poetry |-> "poetry install", uv |-> "uv sync", pipenv |-> "pipenv install"]

conventionSource ==
  [npm |-> "npm convention", yarn |-> "yarn convention", pnpm |-> "pnpm convention",
   bun |-> "bun convention", pip |-> "pip convention", poetry |-> "poetry convention",
   uv |-> "uv convention", pipenv |-> "pipenv convention"]

deriveInstallCommand(packageManager) ==
  IF packageManager = NullName THEN Null
  ELSE IF packageManager \notin DOMAIN installCommands THEN Null
  ELSE DetectedCommand(installCommands[packageManager], conventionSource[packageManager])

emptyDetectionResult ==
  [languages |-> <<>>, packageManager |-> NullName, testFramework |-> Null,
   buildSystem |-> Null, ciProvider |-> NullName, linters |-> <<>>,
   isMonorepo |-> FALSE, installCommand |-> Null, directories |-> <<>>]

\* the DetectionResult detectProject resolves to over a storage that answers every query
detectProject(fs) ==
  LET packageManager == detectPackageManager(fs) IN
  [languages |-> detectLanguage(fs),
   packageManager |-> packageManager,
   testFramework |-> detectTestFramework(fs),
   buildSystem |-> detectBuildSystem(fs),
   ciProvider |-> detectCIProvider(fs),
   linters |-> detectLinters(fs),
   directories |-> detectDirectories(fs),
   isMonorepo |-> detectMonorepo(fs),
   installCommand |-> deriveInstallCommand(packageManager)]

(***************************************************************************)
(* Generated texts.  A JSON document is the token sequence of Stringify   *)
(* followed by the final "\n".  A markdown document is the sequence of    *)
(* the strings joined by "\n"; each is [parts, pad]: the concatenation of *)
(* parts, with pad spaces after the first part (padCommand).              *)
(***************************************************************************)
\* the character U+0060 of the generated markdown
Backquote == "'"
Line(parts) == [parts |-> parts, pad |-> 0]
NullText == [null |-> TRUE, text |-> <<>>]
Text(content) == [null |-> FALSE, text |-> content]

\* String.prototype.length of the commands the detectors produce
length ==
  [c \in {"npm install", "yarn install", "pnpm install", "bun install",
          "pip install -r requirements.txt", "poetry install", "uv sync",
          "pipenv install", "npx vitest run", "npx jest", "npx mocha", "npm test",
          "pytest", "npx vite build", "npx webpack", "npx rollup -c", "npm run build",
          "npx tsc", "python -m build", "hatch build", "maturin build",
          "npx biome check .", "npx eslint .", "npx prettier --check .",
          "ruff check .", "black --check .", "flake8 .", "mypy ."} |->
     CASE c = "npm install" -> 11 [] c = "yarn install" -> 12
       [] c = "pnpm install" -> 12 [] c = "bun install" -> 11
       [] c = "pip install -r requirements.txt" -> 31
       [] c = "poetry install" -> 14 [] c = "uv sync" -> 7
       [] c = "pipenv install" -> 14 [] c = "npx vitest run" -> 14
       [] c = "npx jest" -> 8 [] c = "npx mocha" -> 9 [] c = "npm test" -> 8
       [] c = "pytest" -> 6 [] c = "npx vite build" -> 14 [] c = "npx webpack" -> 11
       [] c = "npx rollup -c" -> 13 [] c = "npm run build" -> 13 [] c = "npx tsc" -> 7
       [] c = "python -m build" -> 15 [] c = "hatch build" -> 11
       [] c = "maturin build" -> 13 [] c = "npx biome check ." -> 17
       [] c = "npx eslint ." -> 12 [] c = "npx prettier --check ." -> 22
       [] c = "ruff check ." -> 12 [] c = "black --check ." -> 15
       [] c = "flake8 ." -> 8 [] c = "mypy ." -> 6]

Max(a, b) == IF a >= b THEN a ELSE b

\* detection.linters.map((l) => l.name)
linterNamesOf(detection) == [i \in DOMAIN detection.linters |-> detection.linters[i].name]

(***************************************************************************)
(* generator/mcp-config.ts                                                *)
(***************************************************************************)
ServerConfig(command, args) ==
  JObj(<<KV("command", JStr(command)),
         KV("args", JArr([i \in DOMAIN args |-> JStr(args[i])]))>>)

\* the servers record with the lsp server for typescript only
mcpServersTypescriptOnly(detection) ==
  JObj(
    <<KV("memory", ServerConfig("python", <<"-m", "mcp_memory_service">>))>>
    \o (IF ArrIncludes(detection.languages, "typescript")
          THEN <<KV("lsp", ServerConfig("npx", <<"-y", "@mizchi/lsmcp", "-p", "tsgo">>))>>
        ELSE IF ArrIncludes(detection.languages, "python")
          THEN <<KV("tree-sitter", ServerConfig("python", <<"-m", "mcp_server_tree_sitter">>))>>
        ELSE <<>>)
    \o (IF detection.ciProvider = "github-actions"
          THEN <<KV("github",
                    JObj(<<KV("command", JStr("npx")),
                           KV("args", JArr(<<JStr("-y"), JStr("@anthropic/github-mcp-server")>>)),
                           KV("env", JObj(<<KV("GITHUB_TOKEN", JStr("${GITHUB_TOKEN}"))>>))>>))>>
        ELSE <<>>)
    \o (IF detection.testFramework # Null
          THEN <<KV("coverage", ServerConfig("npx", <<"-y", "test-coverage-mcp">>))>>
        ELSE <<>>))

\* the servers record generateMcpConfig builds
mcpServers(detection) ==
  JObj(
    <<KV("memory", ServerConfig("python", <<"-m", "mcp_memory_service">>))>>
    \o (IF ArrIncludes(detection.languages, "typescript")
           \/ ArrIncludes(detection.languages, "javascript")
          THEN <<KV("lsp", ServerConfig("npx", <<"-y", "@mizchi/lsmcp", "-p", "tsgo">>))>>
        ELSE IF ArrIncludes(detection.languages, "python")
          THEN <<KV("tree-sitter", ServerConfig("python", <<"-m", "mcp_server_tree_sitter">>))>>
        ELSE <<>>)
    \o (IF detection.ciProvider = "github-actions"
          THEN <<KV("github",
                    JObj(<<KV("command", JStr("npx")),
                           KV("args", JArr(<<JStr("-y"), JStr("@anthropic/github-mcp-server")>>)),
                           KV("env", JObj(<<KV("GITHUB_TOKEN", JStr("${GITHUB_TOKEN}"))>>))>>))>>
        ELSE <<>>)
    \o (IF detection.testFramework # Null
          THEN <<KV("coverage", ServerConfig("npx", <<"-y", "test-coverage-mcp">>))>>
        ELSE <<>>))

\* generateMcpConfig serialising the servers without the coverage entry
generateMcpConfigWithoutCoverage(detection) ==
  LET all == mcpServers(detection)
      servers == JObj(SelectSeq(all.entries, LAMBDA e : e.key # "coverage"))
  IN IF Len(Keys(servers)) = 0 THEN NullText
     ELSE Text(Stringify(JObj(<<KV("mcpServers", servers)>>)) \o <<Ws("\n")>>)

generateMcpConfig(detection) ==
  LET servers == mcpServers(detection) IN
    IF Len(Keys(servers)) = 0 THEN NullText
    ELSE Text(Stringify(JObj(<<KV("mcpServers", servers)>>)) \o <<Ws("\n")>>)

\* the servers record as a plain object, or null when it has no server
generateMcpConfigObject(detection) ==
  LET servers == mcpServers(detection) IN
    IF Len(Keys(servers)) = 0 THEN Null ELSE servers

(***************************************************************************)
(* generator/hooks.ts                                                     *)
(***************************************************************************)
\* getFormatterCommand asking for ruff before black
getFormatterCommandRuffFirst(detection) ==
  LET linterNames == linterNamesOf(detection) IN
    IF ArrIncludes(linterNames, "biome")
      THEN Text("npx biome format --write \"$CLAUDE_FILE_PATH\"")
    ELSE IF ArrIncludes(linterNames, "prettier")
      THEN Text("npx prettier --write \"$CLAUDE_FILE_PATH\"")
    ELSE IF ArrIncludes(linterNames, "ruff")
      THEN Text("ruff format \"$CLAUDE_FILE_PATH\"")
    ELSE IF ArrIncludes(linterNames, "black")
      THEN Text("black \"$CLAUDE_FILE_PATH\"")
    ELSE NullText

getFormatterCommand(detection) ==
  LET linterNames == linterNamesOf(detection) IN
    IF ArrIncludes(linterNames, "biome")
      THEN Text("npx biome format --write \"$CLAUDE_FILE_PATH\"")
    ELSE IF ArrIncludes(linterNames, "prettier")
      THEN Text("npx prettier --write \"$CLAUDE_FILE_PATH\"")
    ELSE IF ArrIncludes(linterNames, "black")
      THEN Text("black \"$CLAUDE_FILE_PATH\"")
    ELSE IF ArrIncludes(linterNames, "ruff")
      THEN Text("ruff format \"$CLAUDE_FILE_PATH\"")
    ELSE NullText

\* generateHooksConfigObject without the check for an empty hooks object
generateHooksConfigObjectUnchecked(detection) ==
  LET formatter == getFormatterCommand(detection)
      postToolUse ==
        IF ~formatter.null
          THEN <<JObj(<<KV("matcher", JStr("Write|Edit")),
                        KV("type", JStr("command")),
                        KV("command", JStr(formatter.text))>>)>>
          ELSE <<>>
  IN JObj(IF Len(postToolUse) > 0
            THEN <<KV("PostToolUse", JArr(postToolUse))>>
            ELSE <<>>)

generateHooksConfigObject(detection) ==
  LET formatter == getFormatterCommand(detection)
      postToolUse ==
        IF ~formatter.null
          THEN <<JObj(<<KV("matcher", JStr("Write|Edit")),
                        KV("type", JStr("command")),
                        KV("command", JStr(formatter.text))>>)>>
          ELSE <<>>
      hooks == JObj(IF Len(postToolUse) > 0
                      THEN <<KV("PostToolUse", JArr(postToolUse))>>
                      ELSE <<>>)
  IN IF Len(Keys(hooks)) = 0 THEN Null ELSE hooks

generateHooksConfig(detection) ==
  LET hooks == generateHooksConfigObject(detection) IN
    IF hooks = Null THEN NullText
    ELSE Text(Stringify(JObj(<<KV("hooks", hooks)>>)) \o <<Ws("\n")>>)

(***************************************************************************)
(* generator/slash-commands.ts                                            *)
(***************************************************************************)
GeneratedFile(relativePath, content) == [relativePath |-> relativePath, content |-> content]

RECURSIVE JoinAnd(_, _)
\* linters.map((l) => `\`${l.command.command}\``).join(" and "), from index i on
JoinAnd(linters, i) ==
  IF i > Len(linters) THEN <<>>
  ELSE (IF i > 1 THEN <<" and ">> ELSE <<>>)
       \o <<Backquote, linters[i].command.command, Backquote>> \o JoinAnd(linters, i + 1)

buildReviewCommand(detection) ==
  <<Line(<<"Review the changes in the current branch compared to main.">>),
    Line(<<"">>),
    Line(<<"1. Run ", Backquote, "git diff main...HEAD", Backquote, " to see all changes.">>),
    Line(<<"2. For each changed file, check for:">>),
    Line(<<"   - Bugs or logic errors">>),
    Line(<<"   - Missing error handling">>),
    Line(<<"   - Security concerns">>),
    Line(<<"   - Test coverage gaps">>)>>
  \o (IF Len(detection.linters) > 0
        THEN <<Line(<<"3. Run ">> \o JoinAnd(detection.linters, 1)
                    \o <<" and report any issues.">>)>>
        ELSE <<>>)
  \o <<Line(<<"">>),
       Line(<<"Provide a concise summary of findings with file:line references.">>),
       Line(<<"">>)>>

buildTestCommand(detection) ==
  IF detection.testFramework = Null THEN <<>>
  ELSE <<Line(<<"Run the test suite with ", Backquote, detection.testFramework.command.command,
                Backquote, " and report results.">>),
         Line(<<"">>),
         Line(<<"If any tests fail:">>),
         Line(<<"1. Show the failure output.">>),
         Line(<<"2. Identify the likely cause.">>),
         Line(<<"3. Suggest a fix.">>),
         Line(<<"">>),
         Line(<<"If all tests pass, report the summary (pass count, duration).">>),
         Line(<<"">>)>>

\* generateSlashCommands pushing test.md whether or not a test framework was found
generateSlashCommandsAlwaysTest(detection) ==
  <<GeneratedFile(".claude/commands/review.md", buildReviewCommand(detection)),
    GeneratedFile(".claude/commands/test.md", buildTestCommand(detection))>>

generateSlashCommands(detection) ==
  <<GeneratedFile(".claude/commands/review.md", buildReviewCommand(detection))>>
  \o (IF detection.testFramework # Null
        THEN <<GeneratedFile(".claude/commands/test.md", buildTestCommand(detection))>>
        ELSE <<>>)

(***************************************************************************)
(* generator/claude-md.ts                                                 *)
(***************************************************************************)
padCommand(command, description) ==
  [parts |-> <<command, "# ", description>>, pad |-> Max(1, 30 - length[command])]

\* buildCommandsSection printing the install command whether or not there is one
buildCommandsSectionPrintsNull(detection) ==
  (IF detection.installCommand # Null
     THEN <<padCommand(detection.installCommand.command, "Install dependencies")>>
     ELSE <<[parts |-> <<"null", "# ", "Install dependencies">>, pad |-> 26]>>)
  \o (IF detection.buildSystem # Null
        THEN <<padCommand(detection.buildSystem.command.command, "Build project")>>
        ELSE <<>>)
  \o (IF detection.testFramework # Null
        THEN <<padCommand(detection.testFramework.command.command, "Run tests")>>
        ELSE <<>>)
  \o [i \in DOMAIN detection.linters |->
        padCommand(detection.linters[i].command.command,
                   IF detection.linters[i].name = "prettier"
                     THEN "Format check" ELSE "Lint code")]

buildCommandsSection(detection) ==
  (IF detection.installCommand # Null
     THEN <<padCommand(detection.installCommand.command, "Install dependencies")>>
     ELSE <<>>)
  \o (IF detection.buildSystem # Null
        THEN <<padCommand(detection.buildSystem.command.command, "Build project")>>
        ELSE <<>>)
  \o (IF detection.testFramework # Null
        THEN <<padCommand(detection.testFramework.command.command, "Run tests")>>
        ELSE <<>>)
  \o [i \in DOMAIN detection.linters |->
        padCommand(detection.linters[i].command.command,
                   IF detection.linters[i].name = "prettier"
                     THEN "Format check" ELSE "Lint code")]

buildStyleSection(detection) ==
  LET linterNames == linterNamesOf(detection)
      has(name) == ArrIncludes(linterNames, name)
  IN (IF has("eslint") /\ has("prettier")
        THEN <<Line(<<"- ESLint for linting, Prettier for formatting">>)>>
      ELSE IF has("biome") THEN <<Line(<<"- Biome for linting and formatting">>)>>
      ELSE IF has("eslint") THEN <<Line(<<"- ESLint for linting">>)>>
      ELSE <<>>)
     \o (IF has("ruff") THEN <<Line(<<"- Ruff for linting and formatting">>)>> ELSE <<>>)
     \o (IF has("black") THEN <<Line(<<"- Black for formatting">>)>> ELSE <<>>)
     \o (IF has("mypy") THEN <<Line(<<"- Mypy for type checking">>)>> ELSE <<>>)
     \o (IF has("flake8") /\ ~has("ruff") THEN <<Line(<<"- Flake8 for linting">>)>> ELSE <<>>)
     \o (IF ArrIncludes(detection.languages, "typescript")
           THEN <<Line(<<"- TypeScript with strict mode">>)>> ELSE <<>>)

\* the note of one server in the MCP section (-- stands for the em dash of the source)
McpNote(server) ==
  Line(<<"- **", server, "** -- ",
         CASE server = "memory" -> "Cross-session context via mcp-memory-service (semantic search)"
           [] server = "lsp" -> "Code intelligence via lsmcp (go-to-definition, find references, rename)"
           [] server = "tree-sitter" -> "Code intelligence via mcp-server-tree-sitter (AST analysis, symbols)"
           [] server = "github" -> "GitHub integration via github-mcp-server (PRs, issues, Actions)"
           [] server = "coverage" -> "Test coverage tracking via test-coverage-mcp">>)

buildMcpSection(detection) ==
  LET hasTs == ArrIncludes(detection.languages, "typescript")
               \/ ArrIncludes(detection.languages, "javascript")
      hasPython == ArrIncludes(detection.languages, "python")
  IN <<McpNote("memory")>>
     \o (IF hasTs THEN <<McpNote("lsp")>> ELSE <<>>)
     \o (IF hasPython THEN <<McpNote("tree-sitter")>> ELSE <<>>)
     \o (IF ~hasTs /\ ~hasPython THEN <<McpNote("tree-sitter")>> ELSE <<>>)
     \o (IF detection.ciProvider # NullName THEN <<McpNote("github")>> ELSE <<>>)
     \o (IF detection.testFramework # Null THEN <<McpNote("coverage")>> ELSE <<>>)

generateClaudeMd(detection) ==
  LET commands == buildCommandsSection(detection)
      styleNotes == buildStyleSection(detection)
      mcpNotes == buildMcpSection(detection)
  IN <<Line(<<"# CLAUDE.md\n">>),
       Line(<<"This file provides guidance to Claude Code (claude.ai/code) when working with code in this repository.\n">>)>>
     \o (IF Len(commands) > 0
           THEN <<Line(<<"## Build & Test Commands\n">>), Line(<<Backquote, Backquote, Backquote, "bash">>)>>
                \o commands \o <<Line(<<Backquote, Backquote, Backquote, "\n">>)>>
           ELSE <<>>)
     \o (IF Len(detection.directories) > 0
           THEN <<Line(<<"## Key Directories\n">>)>>
                \o [i \in DOMAIN detection.directories |->
                      Line(<<"- ", Backquote, detection.directories[i], "/", Backquote>>)]
                \o <<Line(<<"">>)>>
           ELSE <<>>)
     \o (IF Len(styleNotes) > 0
           THEN <<Line(<<"## Code Style\n">>)>> \o styleNotes \o <<Line(<<"">>)>>
           ELSE <<>>)
     \o (IF Len(mcpNotes) > 0
           THEN <<Line(<<"## MCP Servers Available\n">>),
                  Line(<<"This project is configured with the following MCP servers (see .mcp.json):\n">>)>>
                \o mcpNotes \o <<Line(<<"">>)>>
           ELSE <<>>)
     \o <<Line(<<"## Project-Specific Notes\n">>),
          Line(<<"<!-- Add project-specific context here: domain knowledge, gotchas, conventions -->">>),
          Line(<<"">>)>>

(***************************************************************************)
(* generator/index.ts                                                     *)
(***************************************************************************)
\* generateAll pushing the MCP document and the hooks document one by one
generateAllUnmerged(detection, options) ==
  LET mcpConfig == generateMcpConfig(detection)
      hooks == generateHooksConfig(detection)
  IN <<GeneratedFile("CLAUDE.md", generateClaudeMd(detection))>>
     \o (IF ~mcpConfig.null
           THEN <<GeneratedFile(IF options.local THEN ".claude/settings.local.json"
                                                 ELSE ".mcp.json",
                                mcpConfig.text)>>
           ELSE <<>>)
     \o (IF ~hooks.null
           THEN <<GeneratedFile(".claude/settings.local.json", hooks.text)>>
           ELSE <<>>)
     \o generateSlashCommands(detection)

\* generateAll merging in local mode without the hooks key
generateAllMergeServersOnly(detection, options) ==
  LET mcpConfigObj == generateMcpConfigObject(detection)
      hooksConfigObj == generateHooksConfigObject(detection)
      mcpConfig == generateMcpConfig(detection)
  IN <<GeneratedFile("CLAUDE.md", generateClaudeMd(detection))>>
     \o (IF options.local
           THEN IF mcpConfigObj # Null
                  THEN <<GeneratedFile(".claude/settings.local.json",
                           Stringify(JObj(<<KV("mcpServers", mcpConfigObj)>>)) \o <<Ws("\n")>>)>>
                  ELSE <<>>
           ELSE (IF mcpConfigObj # Null /\ ~mcpConfig.null
                   THEN <<GeneratedFile(".mcp.json", mcpConfig.text)>>
                   ELSE <<>>)
                \o (IF hooksConfigObj # Null
                      THEN <<GeneratedFile(".claude/settings.local.json",
                               Stringify(JObj(<<KV("hooks", hooksConfigObj)>>)) \o <<Ws("\n")>>)>>
                      ELSE <<>>))
     \o generateSlashCommands(detection)

generateAll(detection, options) ==
  LET mcpConfigObj == generateMcpConfigObject(detection)
      hooksConfigObj == generateHooksConfigObject(detection)
      merged == JObj((IF mcpConfigObj # Null THEN <<KV("mcpServers", mcpConfigObj)>> ELSE <<>>)
                     \o (IF hooksConfigObj # Null THEN <<KV("hooks", hooksConfigObj)>> ELSE <<>>))
      mcpConfig == generateMcpConfig(detection)
  IN <<GeneratedFile("CLAUDE.md", generateClaudeMd(detection))>>
     \o (IF options.local
           THEN IF Len(Keys(merged)) > 0
                  THEN <<GeneratedFile(".claude/settings.local.json",
                                       Stringify(merged) \o <<Ws("\n")>>)>>
                  ELSE <<>>
           ELSE (IF mcpConfigObj # Null /\ ~mcpConfig.null
                   THEN <<GeneratedFile(".mcp.json", mcpConfig.text)>>
                   ELSE <<>>)
                \o (IF hooksConfigObj # Null
                      THEN <<GeneratedFile(".claude/settings.local.json",
                               Stringify(JObj(<<KV("hooks", hooksConfigObj)>>)) \o <<Ws("\n")>>)>>
                      ELSE <<>>))
     \o generateSlashCommands(detection)

(***************************************************************************)
(* commands/init.ts: the writer.  The project directory maps each path of *)
(* an artifact to Absent or to the content of the file at that path.      *)
(***************************************************************************)
Absent == [absent |-> TRUE]
OnDisk(content) == [absent |-> FALSE, content |-> content]

ArtifactPaths ==
  {"CLAUDE.md", ".mcp.json", ".claude/settings.local.json",
   ".claude/commands/review.md", ".claude/commands/test.md"}

WriteResult(written, skipped, errors) ==
  [written |-> written, skipped |-> skipped, errors |-> errors]

\* relative paths for which path.resolve(projectPath, relativePath) leaves the project
OutsidePaths == {"../CLAUDE.md", "/etc/CLAUDE.md"}
resolvesOutside(relativePath) == relativePath \in OutsidePaths

\* writeFiles overwriting whatever exists, with or without force
RECURSIVE writeLoopOverwriting(_, _, _, _, _)
writeLoopOverwriting(onDisk, result, files, i, failing) ==
  IF i > Len(files) THEN [files |-> onDisk, result |-> result]
  ELSE LET file == files[i] IN
    IF file.relativePath \in failing
      THEN writeLoopOverwriting(onDisk, [result EXCEPT !.errors = @ + 1], files, i + 1, failing)
    ELSE writeLoopOverwriting([onDisk EXCEPT ![file.relativePath] = OnDisk(file.content)],
                              [result EXCEPT !.written = @ + 1], files, i + 1, failing)

writeFilesOverwriting(onDisk, files, force, failing) ==
  writeLoopOverwriting(onDisk, WriteResult(0, 0, 0), files, 1, failing)

\* the second loop of writeFiles from artifact i on; failing holds the paths for
\* which mkdir, or writeFile on opening the file, throws
RECURSIVE writeLoop(_, _, _, _, _, _)
writeLoop(onDisk, result, files, i, force, failing) ==
  IF i > Len(files) THEN [files |-> onDisk, result |-> result]
  ELSE LET file == files[i] IN
    IF ~force /\ ~onDisk[file.relativePath].absent
      THEN writeLoop(onDisk, [result EXCEPT !.skipped = @ + 1], files, i + 1, force, failing)
    ELSE IF file.relativePath \in failing
      THEN writeLoop(onDisk, [result EXCEPT !.errors = @ + 1], files, i + 1, force, failing)
    ELSE writeLoop([onDisk EXCEPT ![file.relativePath] = OnDisk(file.content)],
                   [result EXCEPT !.written = @ + 1], files, i + 1, force, failing)

writeFiles(onDisk, files, force, failing) ==
  IF \E i \in DOMAIN files : resolvesOutside(files[i].relativePath)
    THEN [files |-> onDisk, result |-> WriteResult(0, 0, 1)]
    ELSE writeLoop(onDisk, WriteResult(0, 0, 0), files, 1, force, failing)

\* the entries that the artifacts on disk add to the listing of the project root
rootEntries(onDisk) ==
  (IF ~onDisk["CLAUDE.md"].absent THEN <<"CLAUDE.md">> ELSE <<>>)
  \o (IF ~onDisk[".mcp.json"].absent THEN <<".mcp.json">> ELSE <<>>)
  \o (IF \E path \in ArtifactPaths \ {"CLAUDE.md", ".mcp.json"} : ~onDisk[path].absent
        THEN <<".claude">> ELSE <<>>)

\* the storage realFs answers from, once artifacts lie in the project directory
realFs(fs, onDisk) == [fs EXCEPT !.dirs = @ \o rootEntries(onDisk)]

(***************************************************************************)
(* Explored storages.                                                     *)
(***************************************************************************)
Obj1(k, v) == <<P("{"), S(k), P(":")>> \o v \o <<P("}")>>
Obj2(k1, v1, k2, v2) ==
  <<P("{"), S(k1), P(":")>> \o v1 \o <<P(","), S(k2), P(":")>> \o v2 \o <<P("}")>>

\* texts of package.json: "{}", "", a truncated text, non-objects, and manifests
PackageJsonTexts ==
  { <<P("{"), P("}")>>,
    <<>>,
    <<P("{"), S("name"), P(":")>>,
    <<Lit("42")>>,
    <<Lit("null")>>,
    <<P("["), S("workspaces"), P("]")>>,
    Obj1("devDependencies", Obj1("typescript", <<S("^5.0.0")>>)),
    Obj1("dependencies", Obj1("typescript", <<S("^5.0.0")>>)),
    Obj1("scripts", <<S("vitest run")>>),
    Obj1("scripts", Obj2("test", <<S("vitest run")>>, "build", <<S("vite build")>>)),
    Obj1("scripts", Obj2("test", <<S("vitest && jest")>>, "build", <<S("tsc && vite build")>>)),
    Obj1("scripts", Obj2("test", <<S("jest --coverage")>>, "build", <<S("webpack --mode production")>>)),
    Obj1("scripts", Obj2("test", <<S("mocha test/")>>, "build", <<S("esbuild src/index.ts --bundle")>>)),
    Obj1("scripts", Obj2("test", <<Lit("1")>>, "build", <<S("tsc")>>)),
    Obj1("scripts", Obj1("build", <<S("rollup -c")>>)),
    Obj2("workspaces", <<P("["), S("packages/*"), P("]")>>,
         "scripts", Obj1("test", <<S("node test.js")>>)) }

PyprojectTexts ==
  { "", "[project]\nname = 'test'", "[tool.poetry]\nname = 'test'",
    "[tool.pytest.ini_options]\ntestpaths = ['tests']",
    "[tool.ruff]\n[tool.mypy]", "[tool.black]\nline-length = 88",
    "[build-system]\nrequires = ['hatchling']",
    "[build-system]\nrequires = ['maturin']",
    "[build-system]\nrequires = ['setuptools']",
    "[tool.hatch]\n[tool.maturin]\nrequires = ['setuptools']",
    "[tool.maturin]\nrequires = ['setuptools']" }

SetupCfgTexts ==
  { "", "[tool:pytest]\ntestpaths = tests", "[flake8]\nmax-line-length = 100",
    "[unittest]\nstart-dir = tests" }

DirNames == {"src", "tests", "node_modules", ".git", "test_app.py"}

RECURSIVE DirListings(_)
\* listings of at most n distinct sub-directories, in every order
DirListings(n) ==
  IF n = 0 THEN {<<>>}
  ELSE LET shorter == DirListings(n - 1) IN
    shorter \cup UNION {{Append(l, d) : d \in DirNames \ Range(l)} : l \in shorter}

WorkflowListings ==
  { <<>>, <<"ci.yml">>, <<"README.md">>, <<"release.yaml">>, <<"ci.yml.bak">>,
    <<"README.md", "ci.yml">> }

RECURSIVE FileSets(_)
\* the sets of at most n files
FileSets(n) ==
  IF n = 0 THEN {{}}
  ELSE LET smaller == FileSets(n - 1) IN
    smaller \cup {s \cup {f} : s \in smaller, f \in Paths}

TextsOf(files, name, texts, absent) == IF name \in files THEN texts ELSE {absent}

Storage(files, pj, pp, sc, dirs, wf) ==
  [present |-> files, packageJson |-> pj, pyproject |-> pp, setupCfg |-> sc,
   dirs |-> dirs, workflows |-> wf, faulty |-> {}]

EmptyStorage == Storage({}, <<>>, "", "", <<>>, <<>>)

(***************************************************************************)
(* initCommand calls detectProject on a storage, then generateAll with    *)
(* options.local.                                                          *)
(*   storage    the storage detectProject is called on                    *)
(*   pc         "start" | "scattered" | "detected" | "generated" |        *)
(*              "rejected"                                                 *)
(*   run        1 in the first invocation, 2 in the second                *)
(*   detection  the DetectionResult of the current invocation             *)
(*   local      options.local of the current invocation                   *)
(*   files      the GeneratedFile list of the current invocation          *)
(*   first      detection, local and files of the first invocation        *)
(*   tasks      the pending detector promises of Promise.all              *)
(*   disk       the artifact paths of the project directory before and     *)
(*              after the last writeFiles, its WriteResult and options     *)
(***************************************************************************)
VARIABLES storage, pc, run, detection, local, files, first, tasks, disk

(***************************************************************************)
(* detectProject on one storage; the storage is kept beside its result.   *)
(***************************************************************************)
vars == <<storage, pc, run, detection, local, files, first, tasks, disk>>

NoRun == [detection |-> emptyDetectionResult, local |-> FALSE, files |-> <<>>]
NoTasks == [interleaved |-> FALSE, of |-> <<>>]

NoDisk ==
  [before |-> [path \in ArtifactPaths |-> Absent],
   files |-> [path \in ArtifactPaths |-> Absent],
   result |-> WriteResult(0, 0, 0),
   force |-> FALSE, dryRun |-> FALSE, failing |-> {}]

Init ==
  /\ storage = EmptyStorage
  /\ pc = "start"
  /\ run = 1
  /\ detection = emptyDetectionResult
  /\ local = FALSE
  /\ files = <<>>
  /\ first = NoRun
  /\ tasks = NoTasks
  /\ disk = NoDisk

\* const detection = await detectProject(projectPath, realFs), on the storage fs
Detect(fs) ==
  /\ storage' = fs
  /\ detection' = detectProject(fs)
  /\ pc' = "detected"
  /\ UNCHANGED <<run, local, files, first, tasks, disk>>

\* detectProject on a storage of at most n entries (files, sub-directories,
\* workflow entries)
DetectUpTo(n) ==
  /\ pc = "start"
  /\ run = 1
  /\ \E present \in FileSets(n) :
     \E dirs \in DirListings(n - Cardinality(present)) :
     \E wf \in {w \in WorkflowListings : Len(w) <= n - Cardinality(present) - Len(dirs)} :
     \E pj \in TextsOf(present, "package.json", PackageJsonTexts, <<>>) :
     \E pp \in TextsOf(present, "pyproject.toml", PyprojectTexts, "") :
     \E sc \in TextsOf(present, "setup.cfg", SetupCfgTexts, "") :
       Detect(Storage(present, pj, pp, sc, dirs, wf))

DetectProject == DetectUpTo(MaxFiles)

Next == DetectProject

Spec == Init /\ [][Next]_vars

(***************************************************************************)
(* Detection followed by generation.  The generators read the             *)
(* DetectionResult only: the storage is an input of the detection step    *)
(* here, and the step keeps the DetectionResult.                          *)
(***************************************************************************)
DetectInput ==
  /\ pc = "start"
  /\ run = 1
  /\ \E present \in FileSets(MaxFiles) :
     \E dirs \in DirListings(MaxFiles - Cardinality(present)) :
     \E wf \in {w \in WorkflowListings :
                  Len(w) <= MaxFiles - Cardinality(present) - Len(dirs)} :
     \E pj \in TextsOf(present, "package.json", PackageJsonTexts, <<>>) :
     \E pp \in TextsOf(present, "pyproject.toml", PyprojectTexts, "") :
     \E sc \in TextsOf(present, "setup.cfg", SetupCfgTexts, "") :
       detection' = detectProject(Storage(present, pj, pp, sc, dirs, wf))
  /\ pc' = "detected"
  /\ UNCHANGED <<storage, run, local, files, first, tasks, disk>>

\* const files = generateAll(detection, { local: options.local === true })
GenerateAll(l) ==
  /\ pc = "detected"
  /\ local' = l
  /\ files' = generateAll(detection, [local |-> l])
  /\ pc' = "generated"
  /\ UNCHANGED <<storage, run, detection, first, tasks, disk>>

NextGenerate ==
  \/ DetectInput
  \/ \E l \in BOOLEAN : GenerateAll(l)

SpecGenerate == Init /\ [][NextGenerate]_vars

(***************************************************************************)
(* The command invoked twice on an unchanged storage.                     *)
(***************************************************************************)
DetectFirst == DetectUpTo(MaxRerunFiles)

\* the command returns and is invoked again
Rerun ==
  /\ pc = "generated"
  /\ run = 1
  /\ first' = [detection |-> detection, local |-> local, files |-> files]
  /\ run' = 2
  /\ pc' = "start"
  /\ detection' = emptyDetectionResult
  /\ local' = FALSE
  /\ files' = <<>>
  /\ UNCHANGED <<storage, tasks, disk>>

\* detectProject of the second invocation pushing the directories onto the
\* list the first invocation filled
DetectAgainOnUsedList ==
  /\ pc = "start"
  /\ run = 2
  /\ detection' = [detectProject(storage) EXCEPT
                     !.directories = first.detection.directories \o @]
  /\ pc' = "detected"
  /\ UNCHANGED <<storage, run, local, files, first, tasks, disk>>

\* detectProject of the second invocation, on the storage of the first
DetectAgain ==
  /\ pc = "start"
  /\ run = 2
  /\ detection' = detectProject(storage)
  /\ pc' = "detected"
  /\ UNCHANGED <<storage, run, local, files, first, tasks, disk>>

NextRerun ==
  \/ DetectFirst
  \/ \E l \in BOOLEAN : GenerateAll(l)
  \/ Rerun
  \/ DetectAgain

SpecRerun == Init /\ [][NextRerun]_vars

(***************************************************************************)
(* A storage one of whose queries fails.  The detectors await each query  *)
(* outside any try block, so the promise of the detector, the promise of  *)
(* Promise.all and the promise of detectProject reject with the failure.  *)
(***************************************************************************)
Query(op, path) == [op |-> op, path |-> path]

\* the first query of each detector and of detectMonorepo
firstQueries ==
  { Query("exists", "package.json"),
    Query("exists", "vitest.config.ts"),
    Query("exists", "vite.config.ts"),
    Query("readDir", ".github/workflows"),
    Query("exists", "biome.json"),
    Query("readDir", ""),
    Query("exists", "pnpm-workspace.yaml") }

tsconfigQuery == Query("exists", "tsconfig.json")

\* detectProject on fs awaits the query q
issues(fs, q) ==
  \/ q \in firstQueries
  \/ /\ q = tsconfigQuery
     /\ \/ exists(fs, "package.json")
        \/ LET nodeResult == detectNodeBuildSystem(fs) IN
             nodeResult = Null \/ nodeResult.name = "tsc"

\* detectProject on the storage fs whose query q fails
DetectFailing(fs, q) ==
  /\ storage' = [fs EXCEPT !.faulty = {q}]
  /\ IF issues(fs, q)
       THEN pc' = "rejected" /\ UNCHANGED detection
       ELSE pc' = "detected" /\ detection' = detectProject(fs)
  /\ UNCHANGED <<run, local, files, first, tasks, disk>>

DetectUnderFault ==
  /\ pc = "start"
  /\ \E present \in FileSets(MaxFaultFiles) :
     \E dirs \in DirListings(MaxFaultFiles - Cardinality(present)) :
     \E wf \in {w \in WorkflowListings :
                  Len(w) <= MaxFaultFiles - Cardinality(present) - Len(dirs)} :
     \E pj \in TextsOf(present, "package.json", PackageJsonTexts, <<>>) :
     \E pp \in TextsOf(present, "pyproject.toml", PyprojectTexts, "") :
     \E sc \in TextsOf(present, "setup.cfg", SetupCfgTexts, "") :
     \E q \in firstQueries \cup {tsconfigQuery} :
       DetectFailing(Storage(present, pj, pp, sc, dirs, wf), q)

NextFault ==
  \/ DetectUnderFault
  \/ \E l \in BOOLEAN : GenerateAll(l)

SpecFault == Init /\ [][NextFault]_vars

(***************************************************************************)
(* The scatter and gather of detectProject: Promise.all over the seven    *)
(* detector promises.  A detector runs up to an await, another one may    *)
(* run, and so on; "first" and "second" are the two halves of a detector  *)
(* that asks for its Node.js evidence and then for its Python evidence.   *)
(***************************************************************************)
Detectors ==
  {"languages", "packageManager", "testFramework", "buildSystem",
   "ciProvider", "linters", "directories"}

ConcurrentStorages ==
  { EmptyStorage,
    Storage({"package.json", "tsconfig.json", "vite.config.ts", "vitest.config.ts",
             "biome.json", "package-lock.json"},
            Obj1("scripts", Obj2("test", <<S("vitest run")>>, "build", <<S("vite build")>>)),
            "", "", <<"src", "tests">>, <<"ci.yml">>),
    Storage({"pyproject.toml", "requirements.txt", "pytest.ini"},
            <<>>, "[tool.ruff]\n[tool.mypy]", "", <<"src", "docs">>, <<>>),
    Storage({"package.json", "pyproject.toml", "setup.cfg", ".eslintrc.json"},
            Obj1("scripts", Obj2("test", <<Lit("1")>>, "build", <<S("tsc")>>)),
            "[tool.pytest.ini_options]\ntestpaths = ['tests']",
            "[flake8]\nmax-line-length = 100", <<"tests">>, <<"release.yaml">>),
    Storage({"pytest.ini"}, <<>>, "", "", <<>>, <<>>),
    Storage({"package.json", "turbo.json"}, <<P("{"), S("name"), P(":")>>,
            "", "", <<"node_modules">>, <<>>) }

Pending == [phase |-> "first", value |-> Null]

\* the detector t run from the await it stands at to its next await, or to its end
AdvanceShared(t, task, fs) ==
  IF t = "testFramework" /\ task.phase = "second"
       /\ tasks.of["languages"].phase = "done"
       /\ ~ArrIncludes(tasks.of["languages"].value, "python")
    THEN [phase |-> "done", value |-> Null]
  ELSE CASE t = "languages" ->
         IF task.phase = "first"
           THEN [phase |-> "second", value |-> detectNodeLanguage(fs)]
           ELSE [phase |-> "done", value |-> task.value \o detectPythonLanguage(fs)]
    [] t = "testFramework" ->
         IF task.phase = "first"
           THEN LET nodeResult == detectNodeTestFramework(fs) IN
                  IF nodeResult # Null THEN [phase |-> "done", value |-> nodeResult]
                  ELSE [phase |-> "second", value |-> Null]
           ELSE [phase |-> "done", value |-> detectPythonTestFramework(fs)]
    [] t = "buildSystem" ->
         IF task.phase = "first"
           THEN LET nodeResult == detectNodeBuildSystem(fs) IN
                  IF nodeResult # Null THEN [phase |-> "done", value |-> nodeResult]
                  ELSE [phase |-> "second", value |-> Null]
           ELSE [phase |-> "done", value |-> detectPythonBuildSystem(fs)]
    [] t = "linters" ->
         IF task.phase = "first"
           THEN [phase |-> "second", value |-> detectNodeLinters(fs)]
           ELSE [phase |-> "done", value |-> task.value \o detectPythonLinters(fs)]
    [] t = "packageManager" -> [phase |-> "done", value |-> detectPackageManager(fs)]
    [] t = "ciProvider" -> [phase |-> "done", value |-> detectCIProvider(fs)]
    [] t = "directories" -> [phase |-> "done", value |-> detectDirectories(fs)]

Advance(t, task, fs) ==
  CASE t = "languages" ->
         IF task.phase = "first"
           THEN [phase |-> "second", value |-> detectNodeLanguage(fs)]
           ELSE [phase |-> "done", value |-> task.value \o detectPythonLanguage(fs)]
    [] t = "testFramework" ->
         IF task.phase = "first"
           THEN LET nodeResult == detectNodeTestFramework(fs) IN
                  IF nodeResult # Null THEN [phase |-> "done", value |-> nodeResult]
                  ELSE [phase |-> "second", value |-> Null]
           ELSE [phase |-> "done", value |-> detectPythonTestFramework(fs)]
    [] t = "buildSystem" ->
         IF task.phase = "first"
           THEN LET nodeResult == detectNodeBuildSystem(fs) IN
                  IF nodeResult # Null THEN [phase |-> "done", value |-> nodeResult]
                  ELSE [phase |-> "second", value |-> Null]
           ELSE [phase |-> "done", value |-> detectPythonBuildSystem(fs)]
    [] t = "linters" ->
         IF task.phase = "first"
           THEN [phase |-> "second", value |-> detectNodeLinters(fs)]
           ELSE [phase |-> "done", value |-> task.value \o detectPythonLinters(fs)]
    [] t = "packageManager" -> [phase |-> "done", value |-> detectPackageManager(fs)]
    [] t = "ciProvider" -> [phase |-> "done", value |-> detectCIProvider(fs)]
    [] t = "directories" -> [phase |-> "done", value |-> detectDirectories(fs)]

\* await Promise.all([...]): the seven detectors are called on the storage fs
Scatter ==
  /\ pc = "start"
  /\ \E fs \in ConcurrentStorages : storage' = fs
  /\ tasks' = [interleaved |-> FALSE, of |-> [t \in Detectors |-> Pending]]
  /\ pc' = "scattered"
  /\ UNCHANGED <<run, detection, local, files, first, disk>>

\* the detector t runs on; interleaved records that it did so while another
\* detector stood between its two halves
Await(t) ==
  /\ pc = "scattered"
  /\ tasks.of[t].phase # "done"
  /\ tasks' = [interleaved |-> tasks.interleaved
                                \/ \E u \in Detectors \ {t} : tasks.of[u].phase = "second",
               of |-> [tasks.of EXCEPT ![t] = Advance(t, @, storage)]]
  /\ UNCHANGED <<storage, pc, run, detection, local, files, first, disk>>

\* the gather resolving as soon as the package manager detector is done
GatherWithoutWaiting ==
  /\ pc = "scattered"
  /\ tasks.of["packageManager"].phase = "done"
  /\ detection' =
       [languages |-> IF tasks.of["languages"].phase = "done"
                        THEN tasks.of["languages"].value ELSE <<>>,
        packageManager |-> tasks.of["packageManager"].value,
        testFramework |-> IF tasks.of["testFramework"].phase = "done"
                            THEN tasks.of["testFramework"].value ELSE Null,
        buildSystem |-> IF tasks.of["buildSystem"].phase = "done"
                          THEN tasks.of["buildSystem"].value ELSE Null,
        ciProvider |-> IF tasks.of["ciProvider"].phase = "done"
                         THEN tasks.of["ciProvider"].value ELSE NullName,
        linters |-> IF tasks.of["linters"].phase = "done"
                      THEN tasks.of["linters"].value ELSE <<>>,
        directories |-> IF tasks.of["directories"].phase = "done"
                          THEN tasks.of["directories"].value ELSE <<>>,
        isMonorepo |-> detectMonorepo(storage),
        installCommand |-> deriveInstallCommand(tasks.of["packageManager"].value)]
  /\ pc' = "detected"
  /\ UNCHANGED <<storage, run, local, files, first, tasks, disk>>

\* Promise.all resolves; the fields are assigned, then detectMonorepo and
\* deriveInstallCommand run
Gather ==
  /\ pc = "scattered"
  /\ \A t \in Detectors : tasks.of[t].phase = "done"
  /\ detection' =
       [languages |-> tasks.of["languages"].value,
        packageManager |-> tasks.of["packageManager"].value,
        testFramework |-> tasks.of["testFramework"].value,
        buildSystem |-> tasks.of["buildSystem"].value,
        ciProvider |-> tasks.of["ciProvider"].value,
        linters |-> tasks.of["linters"].value,
        directories |-> tasks.of["directories"].value,
        isMonorepo |-> detectMonorepo(storage),
        installCommand |-> deriveInstallCommand(tasks.of["packageManager"].value)]
  /\ pc' = "detected"
  /\ UNCHANGED <<storage, run, local, files, first, tasks, disk>>

NextConcurrent ==
  \/ Scatter
  \/ \E t \in Detectors : Await(t)
  \/ Gather

SpecConcurrent == Init /\ [][NextConcurrent]_vars

(***************************************************************************)
(* The init command on a project directory, invoked twice: detectProject  *)
(* through realFs, generateAll, then the dry-run print or writeFiles.     *)
(***************************************************************************)
\* a file the user keeps at the path of an artifact
UserFile == OnDisk(<<Line(<<"kept by hand">>)>>)

\* the artifact paths occupied before the first invocation
ExistingFiles ==
  { {}, {"CLAUDE.md"}, {".claude/settings.local.json"},
    {".mcp.json", ".claude/commands/review.md"} }

\* the paths at which mkdir, or writeFile on opening the file, throws during one
\* invocation (a read-only file or directory)
WriteFaults ==
  { {}, {".claude/settings.local.json"}, {"CLAUDE.md", ".claude/commands/test.md"} }

\* the project directory the command is pointed at
Project ==
  /\ pc = "start"
  /\ run = 1
  /\ \E fs \in ConcurrentStorages, existing \in ExistingFiles :
       LET onDisk == [path \in ArtifactPaths |->
                        IF path \in existing THEN UserFile ELSE Absent]
       IN /\ storage' = fs
          /\ disk' = [NoDisk EXCEPT !.before = onDisk, !.files = onDisk]
  /\ pc' = "project"
  /\ UNCHANGED <<run, detection, local, files, first, tasks>>

\* one invocation on the existing directory Project chose (a missing directory
\* makes the command return before detectProject, with nothing read or written)
InitCommand(l, dryRun, force, failing) ==
  /\ pc \in {"project", "done"}
  /\ run \in {1, 2}
  /\ detection' = detectProject(realFs(storage, disk.files))
  /\ local' = l
  /\ files' = generateAll(detection', [local |-> l])
  /\ IF dryRun
       THEN disk' = [before |-> disk.files, files |-> disk.files,
                     result |-> WriteResult(0, 0, 0),
                     force |-> force, dryRun |-> dryRun, failing |-> failing]
       ELSE disk' = [before |-> disk.files,
                     files |-> writeFiles(disk.files, files', force, failing).files,
                     result |-> writeFiles(disk.files, files', force, failing).result,
                     force |-> force, dryRun |-> dryRun, failing |-> failing]
  /\ first' = IF run = 1
                THEN [detection |-> detection', local |-> l, files |-> files',
                      disk |-> disk']
                ELSE first
  /\ run' = run + 1
  /\ pc' = "done"
  /\ UNCHANGED <<storage, tasks>>

NextInit ==
  \/ Project
  \/ \E l \in BOOLEAN, dryRun \in BOOLEAN, force \in BOOLEAN, failing \in WriteFaults :
       InitCommand(l, dryRun, force, failing)

SpecInit == Init /\ [][NextInit]_vars

(***************************************************************************)
(* Reading generated artifacts.                                           *)
(***************************************************************************)
SettingsPath == ".claude/settings.local.json"
McpPath == ".mcp.json"

\* indices of the artifacts of list at path
At(list, path) == {i \in DOMAIN list : list[i].relativePath = path}

\* the artifact of list at path (when there is exactly one)
TheFile(list, path) == list[CHOOSE i \in At(list, path) : TRUE]

\* the value of the JSON document content, Undefined when content is none
Document(content) ==
  LET doc == JSONparse(content) IN IF doc.threw THEN Undefined ELSE doc.value

\* v is an object with pairwise distinct keys
IsJsonObject(v) ==
  /\ v.type = "object"
  /\ Cardinality(Range(Keys(v))) = Len(Keys(v))

RootKeys(v) == Range(Keys(v))

FormatterNames == {"biome", "prettier", "black", "ruff"}
LinterNameSet(d) == Range(linterNamesOf(d))

(***************************************************************************)
(* C1: in local mode generateAll returns exactly one artifact at           *)
(* .claude/settings.local.json, one JSON document with the MCP servers     *)
(* under root key mcpServers and, iff a hooks object was generated, the    *)
(* hooks under root key hooks, and no .mcp.json artifact; in project mode  *)
(* it returns a .mcp.json artifact holding only mcpServers and, iff a      *)
(* hooks object was generated, a separate .claude/settings.local.json      *)
(* artifact holding only hooks.                                            *)
(***************************************************************************)
C1_MergeCorrectness ==
  pc = "generated" =>
    LET hooksObj == generateHooksConfigObject(detection)
        hookKeys == IF hooksObj # Null THEN {"hooks"} ELSE {}
        settings == At(files, SettingsPath)
        mcp == At(files, McpPath)
    IN IF local
         THEN /\ Cardinality(settings) = 1
              /\ mcp = {}
              /\ LET doc == Document(TheFile(files, SettingsPath).content) IN
                   /\ IsJsonObject(doc)
                   /\ RootKeys(doc) = {"mcpServers"} \cup hookKeys
                   /\ Get(doc, "mcpServers") = mcpServers(detection)
                   /\ hooksObj # Null => Get(doc, "hooks") = hooksObj
         ELSE /\ Cardinality(mcp) = 1
              /\ LET doc == Document(TheFile(files, McpPath).content) IN
                   /\ IsJsonObject(doc)
                   /\ RootKeys(doc) = {"mcpServers"}
                   /\ Get(doc, "mcpServers") = mcpServers(detection)
              /\ Cardinality(settings) = Cardinality(hookKeys)
              /\ hooksObj # Null =>
                   LET doc == Document(TheFile(files, SettingsPath).content) IN
                     /\ IsJsonObject(doc)
                     /\ RootKeys(doc) = {"hooks"}
                     /\ Get(doc, "hooks") = hooksObj

\* local mode, servers and hooks merged into one document
C1_Witness ==
  /\ pc = "generated"
  /\ local
  /\ Cardinality(At(files, SettingsPath)) = 1
  /\ RootKeys(Document(TheFile(files, SettingsPath).content)) = {"mcpServers", "hooks"}

(***************************************************************************)
(* C2: the artifact list of generateAll never holds two artifacts with     *)
(* the same relativePath, whatever the local flag.                         *)
(***************************************************************************)
C2_DistinctPaths ==
  pc = "generated" =>
    \A i, j \in DOMAIN files : files[i].relativePath = files[j].relativePath => i = j

\* local mode with both an MCP configuration and hooks to place
C2_Witness ==
  /\ pc = "generated"
  /\ local
  /\ generateHooksConfigObject(detection) # Null
  /\ generateMcpConfigObject(detection) # Null
  /\ Len(files) >= 3

(***************************************************************************)
(* C4: when the linters hold none of biome, prettier, black, ruff,         *)
(* generateHooksConfigObject and generateHooksConfig return null and       *)
(* generateAll emits no hooks: no .claude/settings.local.json artifact in  *)
(* project mode, no hooks key in local mode; and no artifact ever holds an *)
(* empty hooks object.                                                     *)
(***************************************************************************)
C4_NoHooksWithoutFormatter ==
  pc = "generated" =>
    /\ LinterNameSet(detection) \cap FormatterNames = {} =>
         /\ generateHooksConfigObject(detection) = Null
         /\ generateHooksConfig(detection).null
         /\ ~local => At(files, SettingsPath) = {}
    /\ \A i \in At(files, SettingsPath) :
         LET doc == Document(files[i].content) IN
           /\ (local /\ LinterNameSet(detection) \cap FormatterNames = {}) =>
                "hooks" \notin RootKeys(doc)
           /\ "hooks" \in RootKeys(doc) =>
                LET hooks == Get(doc, "hooks") IN
                  /\ hooks.type = "object"
                  /\ Len(hooks.entries) > 0
                  /\ \A e \in DOMAIN hooks.entries :
                       /\ hooks.entries[e].value.type = "array"
                       /\ Len(hooks.entries[e].value.items) > 0

\* eslint is the only linter: a linter is detected, no formatter hook applies
C4_Witness ==
  /\ pc = "generated"
  /\ local
  /\ LinterNameSet(detection) = {"eslint"}
  /\ Cardinality(At(files, SettingsPath)) = 1

(***************************************************************************)
(* The two invocations compared.                                           *)
(***************************************************************************)
\* the artifacts that are neither the settings document nor the manifest
Others(list) == SelectSeq(list, LAMBDA f : f.relativePath \notin {SettingsPath, McpPath})

(***************************************************************************)
(* C3: for one DetectionResult, switching the local flag changes only the  *)
(* placement: the CLAUDE.md artifact and every slash-command artifact are  *)
(* identical in both modes, the value under mcpServers of the merged local *)
(* document equals the value under mcpServers of the project-mode          *)
(* .mcp.json, and the value under hooks (when present) of the merged local *)
(* document equals the value under hooks of the project-mode               *)
(* .claude/settings.local.json.                                            *)
(***************************************************************************)
C3_ModeChangesPlacementOnly ==
  (pc = "generated" /\ run = 2 /\ local # first.local /\ detection = first.detection) =>
    LET inLocal == IF local THEN files ELSE first.files
        inProject == IF local THEN first.files ELSE files
    IN /\ Others(inLocal) = Others(inProject)
       /\ Cardinality(At(inLocal, "CLAUDE.md")) = 1
       /\ Cardinality(At(inProject, "CLAUDE.md")) = 1
       /\ TheFile(inLocal, "CLAUDE.md") = TheFile(inProject, "CLAUDE.md")
       /\ Cardinality(At(inLocal, SettingsPath)) = 1
       /\ Cardinality(At(inProject, McpPath)) = 1
       /\ LET merged == Document(TheFile(inLocal, SettingsPath).content)
              manifest == Document(TheFile(inProject, McpPath).content)
          IN /\ Get(merged, "mcpServers") = Get(manifest, "mcpServers")
             /\ "hooks" \in RootKeys(merged) <=> At(inProject, SettingsPath) # {}
             /\ "hooks" \in RootKeys(merged) =>
                  Get(merged, "hooks")
                    = Get(Document(TheFile(inProject, SettingsPath).content), "hooks")

\* project mode first, local mode second, with hooks to place
C3_Witness ==
  /\ pc = "generated"
  /\ run = 2
  /\ local
  /\ ~first.local
  /\ At(first.files, SettingsPath) # {}
  /\ At(first.files, McpPath) # {}
  /\ "hooks" \in RootKeys(Document(TheFile(files, SettingsPath).content))

Has(name) == name \in storage.present

\* the least index of a TRUE entry of flags, 0 when there is none
FirstTrue(flags) ==
  IF \E i \in DOMAIN flags : flags[i]
    THEN CHOOSE i \in DOMAIN flags : flags[i] /\ \A j \in 1..(i - 1) : ~flags[j]
    ELSE 0

NodeLockfileSignals ==
  <<Has("bun.lockb"), Has("pnpm-lock.yaml"), Has("yarn.lock"), Has("package-lock.json")>>
NodeLockfileAnswers == <<"bun", "pnpm", "yarn", "npm">>

PoetryDeclared == Has("pyproject.toml") /\ storage.pyproject = "[tool.poetry]\nname = 'test'"

PythonManagerSignals ==
  <<Has("uv.lock"), Has("poetry.lock"), Has("Pipfile.lock"), Has("Pipfile"),
    PoetryDeclared, Has("requirements.txt") \/ Has("pyproject.toml")>>
PythonManagerAnswers == <<"uv", "poetry", "pipenv", "pipenv", "poetry", "pip">>

TypescriptManifests ==
  { Obj1("devDependencies", Obj1("typescript", <<S("^5.0.0")>>)),
    Obj1("dependencies", Obj1("typescript", <<S("^5.0.0")>>)) }

NoDuplicates(s) == \A i, j \in DOMAIN s : s[i] = s[j] => i = j

(***************************************************************************)
(* C9: detectLanguage returns an ordered list: if package.json exists the  *)
(* first entry is typescript when tsconfig.json exists or the dependencies *)
(* or devDependencies of package.json contain the key typescript, and      *)
(* javascript otherwise; then python is appended iff any of                *)
(* pyproject.toml, setup.py, setup.cfg, requirements.txt exists.  The list *)
(* has no duplicates, never holds both typescript and javascript, and      *)
(* python never precedes the JS/TS entry.                                  *)
(***************************************************************************)
C9_LanguageOrder ==
  pc = "detected" =>
    LET languages == detection.languages
        typescript == Has("tsconfig.json") \/ storage.packageJson \in TypescriptManifests
        python == \E name \in {"pyproject.toml", "setup.py", "setup.cfg", "requirements.txt"} :
                    Has(name)
    IN /\ languages = (IF Has("package.json")
                         THEN <<IF typescript THEN "typescript" ELSE "javascript">>
                         ELSE <<>>)
                      \o (IF python THEN <<"python">> ELSE <<>>)
       /\ NoDuplicates(languages)
       /\ ~(ArrIncludes(languages, "typescript") /\ ArrIncludes(languages, "javascript"))
       /\ \A i, j \in DOMAIN languages :
            (languages[i] = "python" /\ languages[j] \in {"typescript", "javascript"}) => j < i

\* typescript declared as a dependency, no tsconfig.json, and a Python signal
C9_Witness ==
  /\ pc = "detected"
  /\ Has("package.json")
  /\ ~Has("tsconfig.json")
  /\ storage.packageJson \in TypescriptManifests
  /\ detection.languages = <<"typescript", "python">>

\* package.json texts that are no JSON text, or a JSON text of no object
UnusableManifests ==
  { <<>>,
    <<P("{"), S("name"), P(":")>>,
    <<Lit("42")>>,
    <<Lit("null")>>,
    <<P("["), S("workspaces"), P("]")>> }

Threw == [threw |-> TRUE]

(***************************************************************************)
(* C10: when package.json exists but its content is not valid JSON or      *)
(* parses to a non-object, no detector throws: detectLanguage yields       *)
(* javascript when tsconfig.json is absent, and detectTestFramework,       *)
(* detectBuildSystem and the monorepo check derive nothing from the        *)
(* manifest: null, null and false when there is no other evidence.         *)
(***************************************************************************)
C10_UnusableManifest ==
  (pc = "detected" /\ Has("package.json") /\ storage.packageJson \in UnusableManifests) =>
    /\ detection.testFramework # Threw
    /\ detection.buildSystem # Threw
    /\ ~Has("tsconfig.json") =>
         (Len(detection.languages) >= 1 /\ detection.languages[1] = "javascript")
    /\ detection.testFramework # Null =>
         detection.testFramework.command.source # "package.json scripts.test"
    /\ detection.buildSystem # Null =>
         detection.buildSystem.command.source # "package.json scripts.build"
    /\ detection.isMonorepo => \E name \in Range(monorepoSignals) : Has(name)
    /\ storage.present = {"package.json"} =>
         /\ detection.testFramework = Null
         /\ detection.buildSystem = Null
         /\ detection.isMonorepo = FALSE

\* a truncated package.json is the only file
C10_Witness ==
  /\ pc = "detected"
  /\ storage.present = {"package.json"}
  /\ storage.packageJson = <<P("{"), S("name"), P(":")>>
  /\ detection.languages = <<"javascript">>

(***************************************************************************)
(* C5: if a storage query issued by a detector fails, the detector yields  *)
(* its no-evidence value and detectProject still completes with a          *)
(* DetectionResult: a failing query never makes a detector, the gather or  *)
(* detectProject reject.                                                   *)
(***************************************************************************)
C5_FailingQueryDegrades ==
  \A q \in storage.faulty :
    (pc # "start" /\ issues(storage, q)) =>
      /\ pc \in {"detected", "generated"}
      /\ q = Query("exists", "package.json") => detection.languages = <<>>
      /\ q = Query("exists", "vitest.config.ts") => detection.testFramework = Null
      /\ q = Query("exists", "vite.config.ts") => detection.buildSystem = Null
      /\ q = Query("readDir", ".github/workflows") => detection.ciProvider = NullName
      /\ q = Query("exists", "biome.json") => detection.linters = <<>>
      /\ q = Query("readDir", "") => detection.directories = <<>>
      /\ q = Query("exists", "pnpm-workspace.yaml") => detection.isMonorepo = FALSE

(***************************************************************************)
(* C7: the seven detectors share no mutable state and none reads the       *)
(* output of another: over an unchanged storage, every interleaving of     *)
(* their queries gives the DetectionResult that running them one after     *)
(* another gives.                                                          *)
(***************************************************************************)
C7_InterleavingIndependent ==
  (pc = "detected" /\ tasks # NoTasks) => detection = detectProject(storage)

\* the detectors ran interleaved on a project of two ecosystems
C7_Witness ==
  /\ pc = "detected"
  /\ tasks # NoTasks
  /\ tasks.interleaved
  /\ detection.languages = <<"javascript", "python">>
  /\ detection.testFramework # Null

(***************************************************************************)
(* The scripts of the explored package.json texts, read off the texts.     *)
(***************************************************************************)
\* <<text, scripts.test, scripts.build>> of the manifests whose scripts is an
\* object; "" stands for a script that is absent or no string
ManifestScripts ==
  { <<Obj1("scripts", Obj2("test", <<S("vitest run")>>, "build", <<S("vite build")>>)),
      "vitest run", "vite build">>,
    <<Obj1("scripts", Obj2("test", <<S("vitest && jest")>>, "build", <<S("tsc && vite build")>>)),
      "vitest && jest", "tsc && vite build">>,
    <<Obj1("scripts", Obj2("test", <<S("jest --coverage")>>, "build", <<S("webpack --mode production")>>)),
      "jest --coverage", "webpack --mode production">>,
    <<Obj1("scripts", Obj2("test", <<S("mocha test/")>>, "build", <<S("esbuild src/index.ts --bundle")>>)),
      "mocha test/", "esbuild src/index.ts --bundle">>,
    <<Obj1("scripts", Obj2("test", <<Lit("1")>>, "build", <<S("tsc")>>)), "", "tsc">>,
    <<Obj1("scripts", Obj1("build", <<S("rollup -c")>>)), "", "rollup -c">>,
    <<Obj2("workspaces", <<P("["), S("packages/*"), P("]")>>,
           "scripts", Obj1("test", <<S("node test.js")>>)), "node test.js", "">> }

\* scripts.test of package.json names word
TestScriptNames(word) ==
  /\ Has("package.json")
  /\ \E m \in ManifestScripts : m[1] = storage.packageJson /\ m[2] # "" /\ includes(m[2], word)

\* scripts.build of package.json names word
BuildScriptNames(word) ==
  /\ Has("package.json")
  /\ \E m \in ManifestScripts : m[1] = storage.packageJson /\ m[3] # "" /\ includes(m[3], word)

Signal(present, name, command, source) ==
  [present |-> present, answer |-> Result(name, command, source)]

\* the answer of the first present signal of signals, Null when none is present
FirstAnswer(signals) ==
  LET winner == FirstTrue([i \in DOMAIN signals |-> signals[i].present]) IN
    IF winner = 0 THEN Null ELSE signals[winner].answer

TestFrameworkSignals ==
  <<Signal(Has("vitest.config.ts"), "vitest", "npx vitest run", "vitest.config.ts"),
    Signal(Has("vitest.config.js"), "vitest", "npx vitest run", "vitest.config.js"),
    Signal(Has("vitest.config.mts"), "vitest", "npx vitest run", "vitest.config.mts"),
    Signal(Has("vitest.config.mjs"), "vitest", "npx vitest run", "vitest.config.mjs"),
    Signal(Has("jest.config.ts"), "jest", "npx jest", "jest.config.ts"),
    Signal(Has("jest.config.js"), "jest", "npx jest", "jest.config.js"),
    Signal(Has("jest.config.mjs"), "jest", "npx jest", "jest.config.mjs"),
    Signal(Has(".mocharc.yml"), "mocha", "npx mocha", ".mocharc.yml"),
    Signal(Has(".mocharc.yaml"), "mocha", "npx mocha", ".mocharc.yaml"),
    Signal(Has(".mocharc.json"), "mocha", "npx mocha", ".mocharc.json"),
    Signal(Has(".mocharc.js"), "mocha", "npx mocha", ".mocharc.js"),
    Signal(TestScriptNames("vitest"), "vitest", "npm test", "package.json scripts.test"),
    Signal(TestScriptNames("jest"), "jest", "npm test", "package.json scripts.test"),
    Signal(TestScriptNames("mocha"), "mocha", "npm test", "package.json scripts.test"),
    Signal(Has("pytest.ini"), "pytest", "pytest", "pytest.ini"),
    Signal(Has("conftest.py"), "pytest", "pytest", "conftest.py"),
    Signal(Has("pyproject.toml")
             /\ storage.pyproject = "[tool.pytest.ini_options]\ntestpaths = ['tests']",
           "pytest", "pytest", "pyproject.toml [tool.pytest]"),
    Signal(Has("setup.cfg") /\ storage.setupCfg = "[tool:pytest]\ntestpaths = tests",
           "pytest", "pytest", "setup.cfg [tool:pytest]")>>

(***************************************************************************)
(* C11: detectTestFramework returns the first match of a fixed order: a    *)
(* vitest config file, then a jest config file, then a mocha config file,  *)
(* each with its npx command and the matched file name as source; only     *)
(* with no such file, scripts.test of package.json naming vitest, jest,    *)
(* mocha in that order (npm test, source package.json scripts.test); then  *)
(* pytest.ini, conftest.py, [tool.pytest of pyproject.toml, [tool:pytest]  *)
(* of setup.cfg.  Of two signals present together the earlier one gives    *)
(* name and source.                                                        *)
(***************************************************************************)
C11_TestFrameworkOrder ==
  pc = "detected" => detection.testFramework = FirstAnswer(TestFrameworkSignals)

\* a mocha config file beside a package.json whose test script names vitest
C11_Witness ==
  /\ pc = "detected"
  /\ Has(".mocharc.yml")
  /\ TestScriptNames("vitest")
  /\ detection.testFramework = Result("mocha", "npx mocha", ".mocharc.yml")

NodeBuildSignals ==
  <<Signal(Has("vite.config.ts"), "vite", "npx vite build", "vite.config.ts"),
    Signal(Has("vite.config.js"), "vite", "npx vite build", "vite.config.js"),
    Signal(Has("vite.config.mts"), "vite", "npx vite build", "vite.config.mts"),
    Signal(Has("vite.config.mjs"), "vite", "npx vite build", "vite.config.mjs"),
    Signal(Has("webpack.config.ts"), "webpack", "npx webpack", "webpack.config.ts"),
    Signal(Has("webpack.config.js"), "webpack", "npx webpack", "webpack.config.js"),
    Signal(Has("webpack.config.mjs"), "webpack", "npx webpack", "webpack.config.mjs"),
    Signal(Has("rollup.config.ts"), "rollup", "npx rollup -c", "rollup.config.ts"),
    Signal(Has("rollup.config.js"), "rollup", "npx rollup -c", "rollup.config.js"),
    Signal(Has("rollup.config.mjs"), "rollup", "npx rollup -c", "rollup.config.mjs"),
    Signal(BuildScriptNames("vite"), "vite", "npm run build", "package.json scripts.build"),
    Signal(BuildScriptNames("webpack"), "webpack", "npm run build", "package.json scripts.build"),
    Signal(BuildScriptNames("esbuild"), "esbuild", "npm run build", "package.json scripts.build"),
    Signal(BuildScriptNames("rollup"), "rollup", "npm run build", "package.json scripts.build"),
    Signal(BuildScriptNames("tsc"), "tsc", "npm run build", "package.json scripts.build"),
    Signal(Has("tsconfig.json"), "tsc", "npx tsc", "tsconfig.json")>>

NodeBuildNames == {"vite", "webpack", "esbuild", "rollup", "tsc"}

(***************************************************************************)
(* C12: detectBuildSystem resolves the Node evidence in three phases: (A)  *)
(* config files in the order vite, webpack, rollup, the first existing     *)
(* file wins, source the matched file name; (B) only if A found nothing,   *)
(* scripts.build of package.json naming vite, webpack, esbuild, rollup,    *)
(* tsc in that order (npm run build, source package.json scripts.build);   *)
(* (C) only if A and B found nothing and tsconfig.json exists, tsc with    *)
(* npx tsc and source tsconfig.json.  A project of tsconfig.json alone     *)
(* yields tsc with source tsconfig.json.                                   *)
(***************************************************************************)
C12_BuildSystemPhases ==
  pc = "detected" =>
    LET node == FirstAnswer(NodeBuildSignals) IN
      /\ node # Null => detection.buildSystem = node
      /\ node = Null =>
           (detection.buildSystem = Null \/ detection.buildSystem.name \notin NodeBuildNames)
      /\ storage.present = {"tsconfig.json"} =>
           detection.buildSystem = Result("tsc", "npx tsc", "tsconfig.json")

\* tsconfig.json beside a package.json whose build script names vite
C12_Witness ==
  /\ pc = "detected"
  /\ Has("tsconfig.json")
  /\ BuildScriptNames("vite")
  /\ detection.buildSystem = Result("vite", "npm run build", "package.json scripts.build")

\* tsconfig.json is the only file
C12_WitnessTsconfigOnly ==
  /\ pc = "detected"
  /\ storage.present = {"tsconfig.json"}
  /\ detection.buildSystem = Result("tsc", "npx tsc", "tsconfig.json")

NodeLinterNames == {"biome", "eslint", "prettier"}

IsNodeLinter(l) == l.name \in NodeLinterNames

NamesOf(list) == {list[i].name : i \in DOMAIN list}

\* no file or section that detectPythonLinters looks for
NoPythonLinterEvidence ==
  /\ ~Has("ruff.toml") /\ ~Has(".flake8") /\ ~Has("mypy.ini")
  /\ ~Has("pyproject.toml") /\ ~Has("setup.cfg")

PyprojectSection(header) == Has("pyproject.toml") /\ includes(storage.pyproject, header)

\* setup.cfg exists and holds the section header
SetupCfgSection(header) == Has("setup.cfg") /\ includes(storage.setupCfg, header)

\* the entries of the linter list for one tool
EntriesOf(name) == SelectSeq(detection.linters, LAMBDA l : l.name = name)

\* dedicated file first, the section only when the dedicated file is absent
TwoTier(name, command, dedicated, hasSection, sectionSource) ==
  /\ Has(dedicated) => EntriesOf(name) = <<Result(name, command, dedicated)>>
  /\ (~Has(dedicated) /\ hasSection) => EntriesOf(name) = <<Result(name, command, sectionSource)>>
  /\ (~Has(dedicated) /\ ~hasSection) => EntriesOf(name) = <<>>

C14_RuffAndFlake8 ==
  pc = "detected" =>
    /\ TwoTier("ruff", "ruff check .", "ruff.toml",
               PyprojectSection("[tool.ruff]"), "pyproject.toml [tool.ruff]")
    /\ TwoTier("flake8", "flake8 .", ".flake8",
               SetupCfgSection("[flake8]"), "setup.cfg [flake8]")
    /\ Len(EntriesOf("mypy")) <= 1

\* mypy.ini beside a pyproject.toml with [tool.mypy]: the section is reported
C14_MypySectionWins ==
  /\ pc = "detected"
  /\ Has("mypy.ini")
  /\ PyprojectSection("[tool.mypy]")
  /\ EntriesOf("mypy") = <<Result("mypy", "mypy .", "pyproject.toml [tool.mypy]")>>

LinterOrder == <<"biome", "eslint", "prettier", "ruff", "black", "flake8", "mypy">>

Rank(name) == CHOOSE i \in DOMAIN LinterOrder : LinterOrder[i] = name

\* the names of the list are names of LinterOrder, in strictly growing rank
InLinterOrder(list) ==
  /\ \A i \in DOMAIN list : list[i].name \in Range(LinterOrder)
  /\ \A i, j \in DOMAIN list : i < j => Rank(list[i].name) < Rank(list[j].name)

\* the storage without its directory and workflow listings
WithoutListings(fs) == [fs EXCEPT !.dirs = <<>>, !.workflows = <<>>]

(***************************************************************************)
(* C15: the result of detectLinters is a subsequence of the fixed order    *)
(* biome or (eslint, prettier), ruff, black, flake8, mypy: Node results    *)
(* precede Python results and each tool name occurs at most once; the      *)
(* result does not depend on any directory listing; each of the four       *)
(* Python findings depends on its own evidence only; and a pyproject.toml  *)
(* with [tool.ruff] and [tool.mypy] and no dedicated files yields exactly  *)
(* the two entries with sources pyproject.toml [tool.ruff] and             *)
(* pyproject.toml [tool.mypy].                                             *)
(***************************************************************************)
C15_LinterOrder ==
  pc = "detected" =>
    LET names == NamesOf(detection.linters) IN
      /\ InLinterOrder(detection.linters)
      /\ ~("biome" \in names /\ (names \cap {"eslint", "prettier"}) # {})
      /\ detection.linters = detectLinters(WithoutListings(storage))
      /\ "ruff" \in names <=> (Has("ruff.toml") \/ PyprojectSection("[tool.ruff]"))
      /\ "black" \in names <=> PyprojectSection("[tool.black]")
      /\ "flake8" \in names <=> (Has(".flake8") \/ SetupCfgSection("[flake8]"))
      /\ "mypy" \in names <=> (Has("mypy.ini") \/ PyprojectSection("[tool.mypy]"))
      /\ ( /\ PyprojectSection("[tool.ruff]") /\ PyprojectSection("[tool.mypy]")
           /\ ~PyprojectSection("[tool.black]") /\ ~SetupCfgSection("[flake8]")
           /\ ~Has("ruff.toml") /\ ~Has(".flake8") /\ ~Has("mypy.ini") )
         => SelectSeq(detection.linters, LAMBDA l : ~IsNodeLinter(l))
              = <<Result("ruff", "ruff check .", "pyproject.toml [tool.ruff]"),
                  Result("mypy", "mypy .", "pyproject.toml [tool.mypy]")>>

\* a Node and two Python linters found together
C15_Witness ==
  /\ pc = "detected"
  /\ storage.present = {"eslint.config.js", "pyproject.toml"}
  /\ detection.linters = <<Result("eslint", "npx eslint .", "eslint.config.js"),
                           Result("ruff", "ruff check .", "pyproject.toml [tool.ruff]"),
                           Result("mypy", "mypy .", "pyproject.toml [tool.mypy]")>>

\* the text of a source up to its first space, for the sources that have one
FilePartFacts ==
  { <<"package.json scripts.test", "package.json">>,
    <<"package.json scripts.build", "package.json">>,
    <<"pyproject.toml [tool.pytest]", "pyproject.toml">>,
    <<"pyproject.toml [tool.hatch]", "pyproject.toml">>,
    <<"pyproject.toml [tool.maturin]", "pyproject.toml">>,
    <<"pyproject.toml [tool.ruff]", "pyproject.toml">>,
    <<"pyproject.toml [tool.black]", "pyproject.toml">>,
    <<"pyproject.toml [tool.mypy]", "pyproject.toml">>,
    <<"setup.cfg [tool:pytest]", "setup.cfg">>,
    <<"setup.cfg [flake8]", "setup.cfg">>,
    <<"npm convention", "npm">>, <<"yarn convention", "yarn">>,
    <<"pnpm convention", "pnpm">>, <<"bun convention", "bun">>,
    <<"pip convention", "pip">>, <<"poetry convention", "poetry">>,
    <<"uv convention", "uv">>, <<"pipenv convention", "pipenv">> }

FilePart(source) ==
  IF \E f \in FilePartFacts : f[1] = source
    THEN (CHOOSE f \in FilePartFacts : f[1] = source)[2]
    ELSE source

\* the file part of the command's source is a file of the storage
NamesFile(command) == Has(FilePart(command.source))

\* the commands of the three detector categories name files of the storage
DetectorSourcesNameFiles ==
  /\ detection.testFramework # Null => NamesFile(detection.testFramework.command)
  /\ detection.buildSystem # Null => NamesFile(detection.buildSystem.command)
  /\ \A i \in DOMAIN detection.linters : NamesFile(detection.linters[i].command)

(***************************************************************************)
(* C16: every DetectedCommand of a DetectionResult put together by         *)
(* detectProject (testFramework.command, buildSystem.command, every        *)
(* linters[i].command, installCommand) has a source whose file part names  *)
(* a file that exists in the inspected storage.                            *)
(***************************************************************************)
C16_SourcesNameFiles ==
  pc = "detected" =>
    /\ DetectorSourcesNameFiles
    /\ detection.installCommand # Null => NamesFile(detection.installCommand)

(***************************************************************************)
(* C16, amended: the commands of testFramework, buildSystem and linters    *)
(* have a source whose file part names a file of the storage; the source   *)
(* of installCommand is the package manager's name followed by the word    *)
(* convention: its first part is the manager, not a file name.             *)
(***************************************************************************)
C16_DetectorSourcesNameFiles ==
  pc = "detected" =>
    /\ DetectorSourcesNameFiles
    /\ detection.installCommand # Null =>
         FilePart(detection.installCommand.source) = detection.packageManager

\* a pyproject.toml that requires setuptools, without setup.py
C16_Witness ==
  /\ pc = "detected"
  /\ ~Has("setup.py")
  /\ detection.buildSystem = Result("setuptools", "python -m build", "pyproject.toml")
  /\ detection.installCommand = DetectedCommand("pip install -r requirements.txt", "pip convention")

InstallConvention ==
  [npm |-> DetectedCommand("npm install", "npm convention"),
   yarn |-> DetectedCommand("yarn install", "yarn convention"),
   pnpm |-> DetectedCommand("pnpm install", "pnpm convention"),
   bun |-> DetectedCommand("bun install", "bun convention"),
   pip |-> DetectedCommand("pip install -r requirements.txt", "pip convention"),
   poetry |-> DetectedCommand("poetry install", "poetry convention"),
   uv |-> DetectedCommand("uv sync", "uv convention"),
   pipenv |-> DetectedCommand("pipenv install", "pipenv convention")]

\* the lines of the generated CLAUDE.md
ClaudeMdLines == TheFile(files, "CLAUDE.md").content

\* some line of the document holds the text as one of its parts
Prints(lines, text) == \E i \in DOMAIN lines : text \in Range(lines[i].parts)

(***************************************************************************)
(* C17: installCommand is null iff packageManager is null; otherwise it is *)
(* the fixed command of the manager (npm install, yarn install, pnpm       *)
(* install, bun install, pip install -r requirements.txt, poetry install,  *)
(* uv sync, pipenv install) with source "<manager> convention".  When      *)
(* installCommand is null the CLAUDE.md of generateClaudeMd has no install *)
(* line and never prints null.                                             *)
(***************************************************************************)
C17_InstallCommand ==
  /\ pc \in {"detected", "generated"} =>
       /\ detection.installCommand = Null <=> detection.packageManager = NullName
       /\ detection.packageManager # NullName =>
            /\ detection.packageManager \in DOMAIN InstallConvention
            /\ detection.installCommand = InstallConvention[detection.packageManager]
  /\ (pc = "generated" /\ detection.installCommand = Null) =>
       /\ Cardinality(At(files, "CLAUDE.md")) = 1
       /\ ~Prints(ClaudeMdLines, "Install dependencies")
       /\ ~Prints(ClaudeMdLines, "null")

\* no package manager, but a build command: the commands block has no install line
C17_Witness ==
  /\ pc = "generated"
  /\ detection.packageManager = NullName
  /\ detection.installCommand = Null
  /\ Prints(ClaudeMdLines, "## Build & Test Commands\n")
  /\ Prints(ClaudeMdLines, "Build project")
  /\ ~Prints(ClaudeMdLines, "Install dependencies")

\* a package manager: the install line is printed
C17_WitnessInstallLine ==
  /\ pc = "generated"
  /\ detection.installCommand = DetectedCommand("uv sync", "uv convention")
  /\ \E i \in DOMAIN ClaudeMdLines :
       ClaudeMdLines[i] = [parts |-> <<"uv sync", "# ", "Install dependencies">>, pad |-> 23]

\* the package.json texts that parse to an object with a workspaces key
WorkspacesManifests ==
  { Obj2("workspaces", <<P("["), S("packages/*"), P("]")>>,
         "scripts", Obj1("test", <<S("node test.js")>>)) }

MonorepoMarker ==
  \/ Has("pnpm-workspace.yaml") \/ Has("nx.json") \/ Has("turbo.json")
  \/ Has("lerna.json") \/ Has("rush.json")

DeclaresWorkspaces == Has("package.json") /\ storage.packageJson \in WorkspacesManifests

(***************************************************************************)
(* C18: isMonorepo is true iff one of pnpm-workspace.yaml, nx.json,        *)
(* turbo.json, lerna.json, rush.json exists or package.json parses to an   *)
(* object that has a workspaces key; the key alone makes the flag true     *)
(* when every marker file is absent, and with no marker and no such key    *)
(* the flag is false.                                                      *)
(***************************************************************************)
C18_Monorepo ==
  pc = "detected" => (detection.isMonorepo <=> (MonorepoMarker \/ DeclaresWorkspaces))

\* a workspaces key and no marker file
C18_Witness ==
  /\ pc = "detected"
  /\ ~MonorepoMarker
  /\ DeclaresWorkspaces
  /\ detection.isMonorepo

\* package.json is the array ["workspaces"]: no key of that name
C18_WitnessArray ==
  /\ pc = "detected"
  /\ Has("package.json")
  /\ storage.packageJson = <<P("["), S("workspaces"), P("]")>>
  /\ ~detection.isMonorepo

\* the explored entry names that end in .yml or .yaml
YamlNames == {"ci.yml", "release.yaml"}

HasYamlWorkflow == \E i \in DOMAIN storage.workflows : storage.workflows[i] \in YamlNames

(***************************************************************************)
(* C19: detectCIProvider returns github-actions iff the listing of         *)
(* .github/workflows has at least one entry whose name ends in .yml or     *)
(* .yaml; a missing directory, an empty directory and a directory with     *)
(* non-YAML entries only yield null.                                       *)
(***************************************************************************)
C19_CIProvider ==
  pc = "detected" =>
    /\ detection.ciProvider \in {"github-actions", NullName}
    /\ detection.ciProvider = "github-actions" <=> HasYamlWorkflow
    /\ ~HasYamlWorkflow => detection.ciProvider = NullName

\* a YAML workflow listed after a non-YAML entry
C19_Witness ==
  /\ pc = "detected"
  /\ storage.workflows = <<"README.md", "ci.yml">>
  /\ detection.ciProvider = "github-actions"

\* a directory with a non-YAML entry only
C19_WitnessNonYaml ==
  /\ pc = "detected"
  /\ storage.workflows = <<"ci.yml.bak">>
  /\ detection.ciProvider = NullName

ReviewPath == ".claude/commands/review.md"
TestPath == ".claude/commands/test.md"

\* the explored paths that start with .claude/commands/ and end in .md
CommandPaths == {ReviewPath, TestPath}

\* the last n artifacts of the list
LastFiles(list, n) == SubSeq(list, Len(list) - n + 1, Len(list))

(***************************************************************************)
(* C20: generateSlashCommands always returns the artifact                  *)
(* .claude/commands/review.md, and .claude/commands/test.md iff the test   *)
(* framework is non-null; every path it returns lies under                 *)
(* .claude/commands/ and ends in .md; generateAll appends these artifacts  *)
(* unchanged and unmerged, with local set and without.                     *)
(***************************************************************************)
C20_SlashCommands ==
  pc = "generated" =>
    LET commands == generateSlashCommands(detection) IN
      /\ Cardinality(At(commands, ReviewPath)) = 1
      /\ Cardinality(At(commands, TestPath)) = (IF detection.testFramework # Null THEN 1 ELSE 0)
      /\ \A i \in DOMAIN commands : commands[i].relativePath \in CommandPaths
      /\ Len(files) >= Len(commands)
      /\ LastFiles(files, Len(commands)) = commands
      /\ \A i \in DOMAIN files :
           files[i].relativePath \in CommandPaths => i > Len(files) - Len(commands)
      /\ TheFile(files, ReviewPath).content = buildReviewCommand(detection)
      /\ detection.testFramework # Null =>
           TheFile(files, TestPath).content = buildTestCommand(detection)

\* a test framework, local mode: review.md and test.md close the list
C20_Witness ==
  /\ pc = "generated"
  /\ local
  /\ detection.testFramework # Null
  /\ Len(files) >= 3
  /\ files[Len(files) - 1].relativePath = ReviewPath
  /\ files[Len(files)].relativePath = TestPath
  /\ files[Len(files)].content # <<>>

\* no test framework, shared mode: review.md alone
C20_WitnessReviewOnly ==
  /\ pc = "generated"
  /\ ~local
  /\ detection.testFramework = Null
  /\ At(files, TestPath) = {}
  /\ files[Len(files)].relativePath = ReviewPath

\* the names under mcpServers of the document generateMcpConfig returns
ConfiguredServers ==
  LET config == generateMcpConfig(detection) IN
    IF config.null THEN {}
    ELSE RootKeys(Get(Document(config.text), "mcpServers"))

LanguageSet == Range(detection.languages)

(***************************************************************************)
(* C21: for every DetectionResult the MCP configuration is non-null and    *)
(* holds the memory server; it holds github iff ciProvider is              *)
(* github-actions and coverage iff testFramework is non-null; for a        *)
(* project whose only language is typescript or javascript it holds lsp    *)
(* and not tree-sitter, and for a project whose only language is python    *)
(* it holds tree-sitter and not lsp.                                       *)
(***************************************************************************)
C21_McpServers ==
  pc = "generated" =>
    /\ ~generateMcpConfig(detection).null
    /\ "memory" \in ConfiguredServers
    /\ "github" \in ConfiguredServers <=> detection.ciProvider = "github-actions"
    /\ "coverage" \in ConfiguredServers <=> detection.testFramework # Null
    /\ LanguageSet \in {{"typescript"}, {"javascript"}} =>
         ("lsp" \in ConfiguredServers /\ "tree-sitter" \notin ConfiguredServers)
    /\ LanguageSet = {"python"} =>
         ("tree-sitter" \in ConfiguredServers /\ "lsp" \notin ConfiguredServers)
    /\ ~local => /\ Cardinality(At(files, McpPath)) = 1
                 /\ TheFile(files, McpPath).content = generateMcpConfig(detection).text

\* a javascript project with a workflow and no test framework
C21_Witness ==
  /\ pc = "generated"
  /\ LanguageSet = {"javascript"}
  /\ detection.ciProvider = "github-actions"
  /\ ConfiguredServers = {"memory", "lsp", "github"}

\* a python project
C21_WitnessPython ==
  /\ pc = "generated"
  /\ LanguageSet = {"python"}
  /\ detection.testFramework # Null
  /\ ConfiguredServers = {"memory", "tree-sitter", "coverage"}

\* the rearrangements of a list
Rearrangements(list) ==
  { [i \in DOMAIN list |-> list[p[i]]] :
      p \in {q \in [DOMAIN list -> DOMAIN list] : \A i, j \in DOMAIN list : q[i] = q[j] => i = j} }

\* the formatter command of the first of biome, prettier, black, ruff among names
FormatterOf(names) ==
  IF "biome" \in names THEN "npx biome format --write \"$CLAUDE_FILE_PATH\""
  ELSE IF "prettier" \in names THEN "npx prettier --write \"$CLAUDE_FILE_PATH\""
  ELSE IF "black" \in names THEN "black \"$CLAUDE_FILE_PATH\""
  ELSE "ruff format \"$CLAUDE_FILE_PATH\""

\* the hooks object with the one PostToolUse entry for the command
OneHook(command) ==
  JObj(<<KV("PostToolUse",
            JArr(<<JObj(<<KV("matcher", JStr("Write|Edit")),
                          KV("type", JStr("command")),
                          KV("command", JStr(command))>>)>>))>>)

C22_WitnessNoFormatter ==
  /\ pc = "generated"
  /\ linterNamesOf(detection) = <<"eslint", "flake8">>
  /\ generateHooksConfigObject(detection) = Null

MixedLanguages ==
  /\ LanguageSet \cap {"typescript", "javascript"} # {}
  /\ "python" \in LanguageSet

(***************************************************************************)
(* C23: for a detection whose languages hold typescript or javascript and  *)
(* also python, the generated MCP server configuration holds both the lsp  *)
(* server (lsmcp) and the tree-sitter server.                              *)
(***************************************************************************)
C23_MixedLanguageServers ==
  (pc = "generated" /\ MixedLanguages) =>
    /\ "lsp" \in ConfiguredServers
    /\ "tree-sitter" \in ConfiguredServers

\* a javascript and python project: the configuration has lsp and no tree-sitter
C23_MixedGetsLspOnly ==
  /\ pc = "generated"
  /\ MixedLanguages
  /\ "lsp" \in ConfiguredServers
  /\ "tree-sitter" \notin ConfiguredServers

\* no signal of the test framework list is present: no Node and no pytest evidence
NoTestFrameworkSignal == FirstAnswer(TestFrameworkSignals) = Null

\* the unittest evidence: a [unittest] section of setup.cfg, or a test_*.py file
UnittestEvidence ==
  \/ SetupCfgSection("[unittest]")
  \/ ArrIncludes(storage.dirs, "test_app.py")

(***************************************************************************)
(* C24: unittest is a detectable test framework: for a Python project with *)
(* no pytest evidence and either a setup.cfg with a [unittest] section or  *)
(* test_*.py files, detectTestFramework returns a result whose name is     *)
(* unittest.                                                               *)
(***************************************************************************)
C24_UnittestDetected ==
  ( /\ pc = "detected"
    /\ ArrIncludes(detection.languages, "python")
    /\ NoTestFrameworkSignal
    /\ UnittestEvidence ) =>
    /\ detection.testFramework # Null
    /\ detection.testFramework.name = "unittest"

\* a setup.cfg with a [unittest] section and nothing else: no test framework
C24_UnittestNotFound ==
  /\ pc = "detected"
  /\ storage.present = {"setup.cfg"}
  /\ SetupCfgSection("[unittest]")
  /\ detection.languages = <<"python">>
  /\ detection.testFramework = Null

\* the field of the aggregate that each detector's value is assigned to
FieldOf(t) ==
  CASE t = "languages" -> detection.languages
    [] t = "packageManager" -> detection.packageManager
    [] t = "testFramework" -> detection.testFramework
    [] t = "buildSystem" -> detection.buildSystem
    [] t = "ciProvider" -> detection.ciProvider
    [] t = "linters" -> detection.linters
    [] t = "directories" -> detection.directories

(***************************************************************************)
(* C25: detectProject assembles the aggregate only after all seven         *)
(* concurrently launched detectors have completed, and derives             *)
(* installCommand after the gather from the packageManager value the       *)
(* gather returned: while a detector is unfinished no DetectionResult has  *)
(* been returned, and a returned one holds every detector's final value.   *)
(***************************************************************************)
C25_AssembledAfterGather ==
  /\ (pc = "scattered" /\ \E t \in Detectors : tasks.of[t].phase # "done") =>
       detection = emptyDetectionResult
  /\ (pc = "detected" /\ tasks # NoTasks) =>
       /\ \A t \in Detectors : tasks.of[t].phase = "done" /\ FieldOf(t) = tasks.of[t].value
       /\ LET packageManager == tasks.of["packageManager"].value IN
            detection.installCommand =
              IF packageManager = NullName THEN Null ELSE InstallConvention[packageManager]

\* the detectors ran interleaved and the install command was derived
C25_Witness ==
  /\ pc = "detected"
  /\ tasks # NoTasks
  /\ tasks.interleaved
  /\ tasks.of["packageManager"].value = "pip"
  /\ detection.installCommand = DetectedCommand("pip install -r requirements.txt", "pip convention")
  /\ detection.linters # <<>>

\* the package manager detector is done while others are not: nothing returned yet
C25_WitnessUnfinished ==
  /\ pc = "scattered"
  /\ tasks.of["packageManager"].phase = "done"
  /\ tasks.of["packageManager"].value = "npm"
  /\ tasks.of["linters"].phase = "second"
  /\ detection = emptyDetectionResult

\* the server names of the notes in the MCP Servers Available section of CLAUDE.md
ListedServers ==
  { ClaudeMdLines[i].parts[2] :
      i \in {j \in DOMAIN ClaudeMdLines : ClaudeMdLines[j].parts[1] = "- **"} }

(***************************************************************************)
(* C26: for every DetectionResult the set of MCP servers that              *)
(* generateClaudeMd lists in its MCP Servers Available section (memory,    *)
(* lsp, tree-sitter, github, coverage) equals the set of servers of the    *)
(* MCP configuration generated from the same DetectionResult.              *)
(***************************************************************************)
C26_ListedServersConfigured ==
  pc = "generated" => ListedServers = ConfiguredServers

\* no language detected: CLAUDE.md lists tree-sitter, the configuration has memory only
C26_ListedNotConfigured ==
  /\ pc = "generated"
  /\ detection.languages = <<>>
  /\ ListedServers = {"memory", "tree-sitter"}
  /\ ConfiguredServers = {"memory"}

\* one ecosystem detected: the two sets agree
C26_SingleLanguageAgrees ==
  (pc = "generated" /\ LanguageSet # {} /\ ~MixedLanguages) =>
    ListedServers = ConfiguredServers

PythonMarkers == {"pytest.ini", "conftest.py", "pyproject.toml", "setup.cfg", "setup.py"}

\* the storages that differ from fs in one Python marker: the marker removed when
\* fs has it, and added, with each explored text, when fs has none
PythonMarkerToggles(fs) ==
  { [fs EXCEPT !.present = @ \ {m}] : m \in PythonMarkers \cap fs.present }
  \cup { [fs EXCEPT !.present = @ \cup {m}] :
           m \in (PythonMarkers \ {"pyproject.toml", "setup.cfg"}) \ fs.present }
  \cup (IF "pyproject.toml" \in fs.present THEN {}
        ELSE { [fs EXCEPT !.present = @ \cup {"pyproject.toml"}, !.pyproject = text] :
                 text \in PyprojectTexts })
  \cup (IF "setup.cfg" \in fs.present THEN {}
        ELSE { [fs EXCEPT !.present = @ \cup {"setup.cfg"}, !.setupCfg = text] :
                 text \in SetupCfgTexts })

\* some Node signal of the test framework list is present
NodeTestEvidence ==
  FirstAnswer(SelectSeq(TestFrameworkSignals, LAMBDA s : s.answer.name # "pytest")) # Null

\* some Node signal of the build system list is present
NodeBuildEvidence == FirstAnswer(NodeBuildSignals) # Null

(***************************************************************************)
(* C27: in detectTestFramework and detectBuildSystem the Python evidence   *)
(* is consulted only when the Node pipeline returns null: whenever Node    *)
(* evidence yields a result (a config file, a recognised script, or for    *)
(* build the tsconfig.json fallback), adding or removing a Python marker   *)
(* (pytest.ini, conftest.py, pyproject.toml, setup.cfg, setup.py) leaves   *)
(* the result unchanged.                                                   *)
(***************************************************************************)
C27_PythonMarkersIgnored ==
  pc = "detected" =>
    /\ NodeTestEvidence =>
         /\ detection.testFramework # Null
         /\ \A fs \in PythonMarkerToggles(storage) :
              detectTestFramework(fs) = detection.testFramework
    /\ NodeBuildEvidence =>
         /\ detection.buildSystem # Null
         /\ \A fs \in PythonMarkerToggles(storage) :
              detectBuildSystem(fs) = detection.buildSystem

\* a jest config beside pytest.ini: jest, with or without the marker
C27_Witness ==
  /\ pc = "detected"
  /\ storage.present = {"jest.config.ts", "pytest.ini"}
  /\ detection.testFramework = Result("jest", "npx jest", "jest.config.ts")
  /\ detectTestFramework([storage EXCEPT !.present = {"jest.config.ts"}])
       = detection.testFramework

\* tsconfig.json beside a pyproject.toml that requires hatchling: tsc
C27_WitnessBuild ==
  /\ pc = "detected"
  /\ storage.present = {"tsconfig.json", "pyproject.toml"}
  /\ storage.pyproject = "[build-system]\nrequires = ['hatchling']"
  /\ detection.buildSystem = Result("tsc", "npx tsc", "tsconfig.json")

\* the explored pyproject.toml texts that contain [tool.hatch] or hatchling
HatchTexts ==
  { "[build-system]\nrequires = ['hatchling']",
    "[tool.hatch]\n[tool.maturin]\nrequires = ['setuptools']" }

\* the explored pyproject.toml texts that contain [tool.maturin] or maturin
MaturinTexts ==
  { "[build-system]\nrequires = ['maturin']",
    "[tool.hatch]\n[tool.maturin]\nrequires = ['setuptools']",
    "[tool.maturin]\nrequires = ['setuptools']" }

\* the explored pyproject.toml texts that contain setuptools
SetuptoolsTexts ==
  { "[build-system]\nrequires = ['setuptools']",
    "[tool.hatch]\n[tool.maturin]\nrequires = ['setuptools']",
    "[tool.maturin]\nrequires = ['setuptools']" }

PythonBuildAnswer ==
  IF ~Has("pyproject.toml")
    THEN IF Has("setup.py") THEN Result("setuptools", "python -m build", "setup.py") ELSE Null
  ELSE IF storage.pyproject \in HatchTexts
    THEN Result("hatch", "hatch build", "pyproject.toml [tool.hatch]")
  ELSE IF storage.pyproject \in MaturinTexts
    THEN Result("maturin", "maturin build", "pyproject.toml [tool.maturin]")
  ELSE IF storage.pyproject \in SetuptoolsTexts \/ Has("setup.py")
    THEN Result("setuptools", "python -m build", "pyproject.toml")
  ELSE Null

(***************************************************************************)
(* C28: with no Node build evidence, detectBuildSystem resolves the Python *)
(* evidence as: pyproject.toml absent or unreadable -> setuptools with     *)
(* source setup.py iff setup.py exists, else null; pyproject.toml present  *)
(* -> hatch if it contains [tool.hatch] or hatchling, else maturin if it   *)
(* contains [tool.maturin] or maturin, else setuptools with source         *)
(* pyproject.toml if it contains setuptools or setup.py exists, else null. *)
(* With several markers present the earlier one wins.                      *)
(***************************************************************************)
C28_PythonBuildSystem ==
  (pc = "detected" /\ ~NodeBuildEvidence) => detection.buildSystem = PythonBuildAnswer

\* a pyproject.toml with a maturin section that also names setuptools, beside setup.py
C28_Witness ==
  /\ pc = "detected"
  /\ storage.present = {"pyproject.toml", "setup.py"}
  /\ storage.pyproject = "[tool.maturin]\nrequires = ['setuptools']"
  /\ detection.buildSystem = Result("maturin", "maturin build", "pyproject.toml [tool.maturin]")

\* hatch and maturin sections together: hatch
C28_WitnessHatchFirst ==
  /\ pc = "detected"
  /\ storage.pyproject = "[tool.hatch]\n[tool.maturin]\nrequires = ['setuptools']"
  /\ detection.buildSystem = Result("hatch", "hatch build", "pyproject.toml [tool.hatch]")

\* a pyproject.toml without build markers beside setup.py: setuptools by pyproject.toml
C28_WitnessSetupPy ==
  /\ pc = "detected"
  /\ storage.present = {"pyproject.toml", "setup.py"}
  /\ storage.pyproject = "[project]\nname = 'test'"
  /\ detection.buildSystem = Result("setuptools", "python -m build", "pyproject.toml")

RecognisedNames ==
  {"src", "lib", "app", "pages", "components", "tests", "test", "__tests__", "spec",
   "docs", "scripts", "public", "static", "assets", "config", "utils", "helpers"}

(***************************************************************************)
(* C29: the directories field is exactly the sequence of the entries of    *)
(* the project-root listing whose name is one of the 17 recognised names   *)
(* (src, lib, app, pages, components, tests, test, __tests__, spec, docs,  *)
(* scripts, public, static, assets, config, utils, helpers), in the order  *)
(* the listing returned them; entries such as node_modules and .git are    *)
(* never included, and an empty or missing listing yields [].              *)
(***************************************************************************)
C29_Directories ==
  pc = "detected" =>
    /\ Cardinality(RecognisedNames) = 17
    /\ Range(interestingDirs) = RecognisedNames
    /\ detection.directories
         = SelectSeq(readDirRoot(storage), LAMBDA entry : entry \in RecognisedNames)
    /\ "node_modules" \notin Range(detection.directories)
    /\ ".git" \notin Range(detection.directories)
    /\ readDirRoot(storage) = <<>> => detection.directories = <<>>

\* tests listed before src: kept in that order
C29_Witness ==
  /\ pc = "detected"
  /\ storage.dirs = <<"tests", "src">>
  /\ detection.directories = <<"tests", "src">>

\* .git and node_modules only: nothing recognised
C29_WitnessUnrecognised ==
  /\ pc = "detected"
  /\ storage.dirs = <<".git", "node_modules">>
  /\ detection.directories = <<>>

(***************************************************************************)
(* C30                                                                    *)
(***************************************************************************)
PathsOf(list) == {list[i].relativePath : i \in DOMAIN list}

\* the artifacts of the invocation whose path was occupied when it started
Occupied == {i \in DOMAIN files : ~disk.before[files[i].relativePath].absent}

\* the artifacts of the invocation whose write throws
Failing == {i \in DOMAIN files : files[i].relativePath \in disk.failing}

\* without force: occupied paths keep their file and are counted as skipped
KeepsExisting ==
  /\ \A i \in Occupied :
       disk.files[files[i].relativePath] = disk.before[files[i].relativePath]
  /\ disk.result.skipped = Cardinality(Occupied)

\* C30 as stated: without force an existing file at an artifact's path is kept
\* and counted as skipped, a second invocation without force leaves the
\* directory of the first as it was and writes nothing, and with force every
\* artifact path holds the newly generated content.
C30_InitWriter ==
  (pc = "done" /\ ~disk.dryRun) =>
    /\ ~disk.force => KeepsExisting
    /\ (run = 3 /\ ~disk.force /\ ~first.disk.dryRun) =>
         /\ disk.files = first.disk.files
         /\ disk.result.written = 0
    /\ disk.force =>
         \A i \in DOMAIN files :
           disk.files[files[i].relativePath] = OnDisk(files[i].content)

\* C30, amended: without force an existing file at an artifact's path is kept
\* and counted as skipped, and a second invocation without force keeps every
\* file present after the first; it writes nothing when it has the same
\* options.local as a first invocation that wrote without errors.  With force
\* every artifact whose write does not throw holds the newly generated
\* content and is counted as written; one whose mkdir or open throws keeps what
\* its path held and is counted as an error.  Paths of no artifact, and all paths in a dry run, are
\* left alone.
C30_InitWriterKeepsExisting ==
  pc = "done" =>
    /\ disk.dryRun => disk.files = disk.before /\ disk.result = WriteResult(0, 0, 0)
    /\ \A path \in ArtifactPaths \ PathsOf(files) : disk.files[path] = disk.before[path]
    /\ (~disk.dryRun /\ ~disk.force) => KeepsExisting
    /\ (~disk.dryRun /\ ~disk.force /\ run = 3) =>
         /\ \A path \in ArtifactPaths :
              ~first.disk.files[path].absent => disk.files[path] = first.disk.files[path]
         /\ (local = first.local /\ ~first.disk.dryRun /\ first.disk.result.errors = 0) =>
              /\ disk.files = first.disk.files
              /\ disk.result = WriteResult(0, Len(files), 0)
    /\ (~disk.dryRun /\ disk.force) =>
         /\ \A i \in DOMAIN files \ Failing :
              disk.files[files[i].relativePath] = OnDisk(files[i].content)
         /\ \A i \in Failing :
              disk.files[files[i].relativePath] = disk.before[files[i].relativePath]
         /\ disk.result = WriteResult(Len(files) - Cardinality(Failing), 0, Cardinality(Failing))

\* a second invocation without force after a first that wrote artifacts beside
\* a file of the user: everything is skipped and the directory is as it was
C30_Witness ==
  /\ pc = "done"
  /\ run = 3
  /\ ~disk.dryRun /\ ~disk.force
  /\ local = first.local
  /\ ~first.disk.dryRun
  /\ first.disk.result.written > 0
  /\ first.disk.result.skipped > 0
  /\ first.disk.result.errors = 0
  /\ disk.files = first.disk.files
  /\ disk.result = WriteResult(0, Len(files), 0)
  /\ disk.files["CLAUDE.md"] = UserFile

\* a second invocation without force that writes: the first was in project
\* mode, the second has --local and adds the settings file
C30_WitnessSecondWrites ==
  /\ pc = "done"
  /\ run = 3
  /\ ~disk.dryRun /\ ~disk.force
  /\ ~first.disk.dryRun
  /\ first.disk.result.errors = 0
  /\ ~first.local /\ local
  /\ disk.result.written > 0
  /\ disk.files # first.disk.files

\* an invocation with force in which a write throws: the path keeps the file
\* of the user and the artifact is counted as an error
C30_WitnessForceFails ==
  /\ pc = "done"
  /\ ~disk.dryRun /\ disk.force
  /\ disk.result.errors > 0
  /\ disk.result.written > 0
  /\ \E i \in Failing : disk.files[files[i].relativePath] = UserFile

====
